---- MODULE Spec2Model ----
(***************************************************************************)
(* XCIP Master: the connection lifecycle manager (xcipmaster/comm.py)     *)
(* driving the EtherNet/IP client (thirdparty/scapy_cip_enip/tgv2020.py). *)
(*                                                                         *)
(* Processes: the operator (the thread that calls start(), stop(),        *)
(* enable_auto(), disable_auto(), run_once()) and the background          *)
(* communication threads spawned by start().  The target device is the    *)
(* environment: its replies and datagrams are the nondeterministic        *)
(* choices of the receive steps, and a reply that never comes is a        *)
(* receive step that is never taken.                                       *)
(***************************************************************************)
EXTENDS Integers, Sequences, FiniteSets, TLC

\* ------------------------------------------------------------------ bounds
\* Thread and client objects that exist at one time (an object nothing refers
\* to any more is reclaimed and its identity reused), the attempts counted per
\* thread (the count saturates there), the datagrams the target delivers on
\* one connection.
MaxThreads == 2
MaxClients == 3
MaxAttempts == 2
MaxCycles == 1

\* StreamSpec: the datagrams the target delivers on one connection (enough for
\* the heartbeat to pass 255 and the sequence count to pass 65535), and the
\* distinct payloads they carry.
MaxStreamCycles == 258
MaxPayload == 2

\* The assembly sizes tried for the connection parameters: every multiple of
\* 4 bits up to 4 * MaxParamWords (sizes that are whole bytes and sizes that
\* are not; 128 bits is among them).
MaxParamWords == 33

\* The schemas handed to the layout compiler: up to MaxFields declared
\* fields at bit offsets below 8 * MaxLayoutBytes, and every total size of a
\* multiple of 4 bits up to 8 * MaxLayoutBytes.
MaxFields == 2
MaxLayoutBytes == 3

\* ------------------------------------------------- constants of the program
OT_BASE == 18432
TO_BASE == 10240
PARAM_OVERHEAD == 6
APP_COUNTER_START == 65500
APP_COUNTER_MAX == 65535
ALIVE_MAX == 255

None == 0
Op == 0
Threads == 1..MaxThreads
Procs == {Op} \cup Threads
ClientIds == 1..MaxClients
FreeLock == -1
\* The waveform generator thread, as a holder of the lock
Wave == MaxThreads + 1

\* config_service.ot_eo_assemblies / to_assemblies: None, an element whose
\* size attribute cannot be read, or an element with its size in bits.
NoAsm == 0
BadSize == -1
AsmSizes == {128}
ParamSizes == {4 * k : k \in 1..MaxParamWords}
AsmValues == {NoAsm, BadSize} \cup AsmSizes

\* The payload of a T->O datagram: a numbered content, or one that cannot be
\* read (pkgCIP_IO.payload.load raises); NoPayload is no datagram (None), and
\* FreshPayload the content of a packet that was just instantiated.
NoPayload == -1
FreshPayload == 0
BadPayload == -2
Payloads == 1..MaxPayload

\* The OT packet instance as far as the heartbeat goes: how its class
\* declares MPU_CTCMSAlive (usint gives a ByteField, "other" is any other
\* field type, "absent" no such field) and the value of that field.
\* NoPacket is config_service.OT_packet = None.
HbKinds == {"byte", "other", "absent"}
NoPacket == [hb |-> "nopacket", MPU_CTCMSAlive |-> 0]
FreshPacket(kind) == [hb |-> kind, MPU_CTCMSAlive |-> 0]

\* The fields an operator names in a field command: the heartbeat byte, a
\* REAL (IEEEFloatField), a UINT (ShortField), a UDINT (LEIntField, a type
\* set_field does not support) and a name the packet does not have; and the
\* values typed, as the command line hands them over (strings).
FieldNames == {"MPU_CTCMSAlive", "Real1", "Uint1", "Udint1", "Missing"}
FieldValues == {"1", "300", "70000", "0x12", "0x1234", "abc", "1.5"}
NoCmd == [name |-> "none", value |-> "none"]

\* The assembly elements given to the layout compiler: the declared fields
\* in document order (tag, offset and length attributes; the id of a field is
\* its position) and the size attribute in bits.  A STRING has a length of
\* 0, 1 or 2 bytes, every other field the default length 1.
TypeLens ==
    {[type |-> "bool", length |-> 1], [type |-> "usint", length |-> 1],
     [type |-> "uint", length |-> 1], [type |-> "int", length |-> 1],
     [type |-> "string", length |-> 0],
     [type |-> "string", length |-> 1], [type |-> "string", length |-> 2]}
FieldShapes ==
    {[offset |-> o, type |-> tl.type, length |-> tl.length] :
        o \in 0..(8 * MaxLayoutBytes - 1), tl \in TypeLens}
Schemas ==
    {[fields |-> fs, total_bits |-> 4 * w] :
        fs \in UNION {[1..k -> FieldShapes] : k \in 0..MaxFields},
        w \in 0..(2 * MaxLayoutBytes)}
NoSchema == [fields |-> <<>>, total_bits |-> -1]
NoLayout == [error |-> "nolayout", fields |-> <<>>, field_desc |-> <<>>]

\* The O->T datagram a client last handed to Sock1 (StreamSpec follows it):
\* its CIP sequence count and its heartbeat; here none yet
NoDatagram == [seq |-> -1, alive |-> -1]

\* ------------------------------------------------ fields.py: the values
\* The number of set_value and clear_value calls followed on one packet.
MaxMutations == 2

\* A Python value as the codec sees it: an int, a float (the four bytes of
\* its single-precision pattern in memory order, least significant first), a
\* bytes object, a str (its character codes) or None.
IntV(n) == [t |-> "int", n |-> n, b |-> <<>>]
FloatV(b) == [t |-> "float", n |-> 0, b |-> b]
BytesV(b) == [t |-> "bytes", n |-> 0, b |-> b]
StrV(s) == [t |-> "str", n |-> 0, b |-> s]
NoneV == [t |-> "None", n |-> 0, b |-> <<>>]

\* The fields of the packet class the codec is run on, with the scapy class
\* of each: those of the test's ExamplePacket, one field for each further
\* class that has a strategy with a setter, a UDINT (LEIntField, which
\* has no strategy); "missing" is not an attribute of the class.
CodecFields ==
    ("float_field" :> "IEEEFloatField") @@ ("bit_field" :> "BitField") @@
    ("byte_field" :> "ByteField") @@ ("short_field" :> "ShortField") @@
    ("le_short_field" :> "LEShortField") @@ ("text_field" :> "StrFixedLenField") @@
    ("double_field" :> "IEEEDoubleField") @@ ("udint_field" :> "LEIntField")
CodecNames == DOMAIN CodecFields \cup {"missing"}
\* StrFixedLenField("text_field", b"", length=4)
TEXT_LENGTH == 4

\* A packet that was just instantiated: every field at its default.
DefaultPacket ==
    [f \in DOMAIN CodecFields |->
        CASE CodecFields[f] = "StrFixedLenField" -> BytesV(<<>>)
          [] CodecFields[f] \in {"IEEEFloatField", "IEEEDoubleField"} -> FloatV(<<0, 0, 0, 0>>)
          [] OTHER -> IntV(0)]

\* The last call made on the codec: its arguments, what it returned and the
\* exception it raised.
NoMut == [op |-> "none", name |-> "none", raw |-> NoneV, result |-> NoneV,
          exc |-> "none", count |-> 0]

\* ---------------------------------------------- config.py: the documents
\* The assembly elements directly under the root of a configuration document.
MaxAssemblies == 3
\* The packet classes and packet instances created (object identities).
MaxObjects == 6
\* An assembly element: its subtype, the number of its child elements and its
\* size attribute in bits (BadSize when the element has none; the size of an
\* element without children is never read).
AssemblyShapes ==
    {[subtype |-> st, children |-> n, size |-> sz] :
        st \in {"OT_EO", "TO"}, n \in 0..1, sz \in AsmSizes}
        \cup {[subtype |-> st, children |-> 1, size |-> BadSize] : st \in {"OT_EO", "TO"}}
\* A document that parses: its assemblies in document order.
Documents == UNION {[1..k -> AssemblyShapes] : k \in 0..MaxAssemblies}
Subtypes == {"OT_EO", "TO"}
\* CIPConfigService.__init__ (lines 46-51): nothing registered; loaded is
\* the document of the last load_configuration call, success its result.
NoService ==
    [loaded |-> [kind |-> "none", root |-> <<>>], flip |-> 0, success |-> FALSE,
     packet_layouts |-> [st \in Subtypes |-> None],
     packet_instances |-> [st \in Subtypes |-> None],
     OT_packet_class |-> None, TO_packet_class |-> None,
     OT_packet |-> None, TO_packet |-> None,
     class_of |-> [o \in 1..MaxObjects |-> None], made |-> 0]

\* ------------------------------------------ tgv2020.py: the Client object
\* Calls of forward_open / read_full_tag made on one Client object.
MaxCalls == 2
\* The connection ids a target can assign in its Forward Open reply.
ConnIds == {17, 34}
\* The size asked of read_full_tag, the bytes one reply can carry, and the
\* byte values of a tag.
MaxTagSize == 3
MaxChunk == 2
TagBytes == {170, 187}
\* CIP general status of a reply: 0 success, 6 partial data, 1 another error.
CipStatuses == {0, 1, 6}
\* A Client not constructed yet; after __init__ (lines 41-104) Sock is the
\* TCP socket or None and both connection ids are 0.
NoCip ==
    [state |-> "unborn", Sock |-> "none",
     enip_connection_id_OT |-> 0, enip_connection_id_TO |-> 0, calls |-> 0]
\* The reply to a request: CIP status, the two connection ids of a Forward
\* Open response, whether the payload is a Forward Open response, the data
\* bytes of a Read Tag response.
NoReply == [status |-> 0, ot |-> 0, to |-> 0, is_fo |-> FALSE, data |-> <<>>]
\* The last call on the Client: its method, where it stands, what it
\* returned, the requests it sent, the connection ids before it, the last
\* reply, the locals of read_full_tag, the start and length of each Read Tag
\* request it sent, and the bytes it returned.
NoCall ==
    [method |-> "none", pc |-> "idle", ret |-> "none", requests |-> 0,
     before |-> <<0, 0>>, reply |-> NoReply,
     total_size |-> 0, offset |-> 0, remaining_size |-> 0, data_chunks |-> <<>>,
     sent |-> <<>>, data |-> <<>>]

\* ------------------------------------- cli/waveforms.py: the generators
\* The generator threads the waveform commands start.
MaxGenerators == 2
\* The REAL fields of the OT packet that can be waved.
WaveFields == {"Real1", "Real2"}
Generators == 1..MaxGenerators
\* A generator thread not started yet; a started one stands before its loop
\* test ("test"), before the with block ("acquire"), inside it ("set"), or
\* has ended ("done"); epoch is the number of waveforms started on its field
\* when it last found its loop condition open.
NoGenerator == [state |-> "unborn", field_name |-> "none", epoch |-> 0]
\* The CLI as the waveform commands see it: stop_events[field] ("absent"
\* when the dict has no entry), the waveforms started on each field, who wrote
\* each field last, the last command on each field, and where the operator's
\* command stands.
NoCliWave ==
    [stop_events |-> [f \in WaveFields |-> "absent"],
     started |-> [f \in WaveFields |-> 0],
     value |-> [f \in WaveFields |-> "default"],
     last_cmd |-> [f \in WaveFields |-> "none"],
     op_pc |-> "idle", op_name |-> "none"]

\* --------------------------------------- fields.py: the WaveformManager
\* The stop events (and runner threads) a WaveformManager creates.
MaxEvents == 3
Events == 1..MaxEvents
\* The names given to the manager: the REAL fields and a field that is not
\* an IEEEFloatField.
ManagerNames == WaveFields \cup {"byte_field"}
\* The last call on the manager: its name argument, what it returned (a bool
\* for stop_wave, names for stop_all, an exception for start_wave) and the
\* names and events registered before it.
NoManagerCall ==
    [op |-> "none", name |-> "none", ret |-> FALSE, stopped |-> {}, exc |-> "none",
     before |-> {}, before_events |-> {}]
\* WaveformManager.__init__ (lines 337-338): both dicts empty; _stop_events
\* and _threads hold for a field the event and the runner registered for it
\* (None when the dict has no entry), event[e] is the state of an event and
\* runner[e] that of the thread started with it.
NoManager ==
    [_stop_events |-> [f \in ManagerNames |-> None],
     _threads |-> [f \in ManagerNames |-> None],
     event |-> [e \in Events |-> "unborn"],
     runner |-> [e \in Events |-> "unborn"],
     call |-> NoManagerCall]

VARIABLES
    enable_auto_reconnect,      \* self.enable_auto_reconnect
    stop_comm_events,           \* self.stop_comm_events.is_set()
    start_comm_thread_instance, \* self.start_comm_thread_instance (None or a thread)
    clMPU_CIP_Server,           \* self.clMPU_CIP_Server (None or a client)
    bCIPErrorOccured,           \* self.bCIPErrorOccured
    lock,                       \* holder of self.lock, FreeLock when free
    ot_eo_assemblies,           \* config_service.ot_eo_assemblies
    to_assemblies,              \* config_service.to_assemblies
    clients,                    \* the client objects
    pc,                         \* position of each process
    frame,                      \* locals of run_once / manage_io_communication per process
    attempts,                   \* run_once calls made by each background thread
    seen,                       \* what each thread's run has seen of the policy and the stop flag
    ret,                        \* what the operator's last call returned, when it reports an outcome
    TO_packet,                  \* config_service.TO_packet (its content)
    OT_packet,                  \* config_service.OT_packet
    pkgCIP_IO,                  \* manage_io_communication: the datagram just received
    field_cmd,                  \* arguments of the field command the operator is running
    wave_pc,                    \* position of the waveform generator thread
    stop_events,                \* stop_events[field_name] of the waved field
    schema,                     \* the assembly element given to create_packet_class
    layout,                     \* what create_packet_class made of it
    codec_packet,               \* the field values of the packet the codec works on
    mut,                        \* the last FieldMutator / FieldFormatter call
    service,                    \* CIPConfigService: layouts, classes, instances
    cip_client,                 \* a tgv2020 Client used directly: socket, connection ids
    cip_call,                   \* the last forward_open / read_full_tag call on it
    generators,                 \* the generator threads of the CLI waveform commands
    cli_wave,                   \* stop events, field values and command of the waveform CLI
    waveform_manager            \* a WaveformManager: its dicts, events, runners, last call

vars == <<enable_auto_reconnect, stop_comm_events, start_comm_thread_instance,
          clMPU_CIP_Server, bCIPErrorOccured, lock, ot_eo_assemblies, to_assemblies,
          clients, pc, frame, attempts, seen, ret,
          TO_packet, OT_packet, pkgCIP_IO, field_cmd, wave_pc, stop_events,
          schema, layout, codec_packet, mut, service, cip_client, cip_call, generators, cli_wave, waveform_manager>>

\* Packet contents and datagram contents.  Spec follows the control flow of
\* the manager and leaves them as they are; StreamSpec follows them.
dataVars == <<TO_packet, OT_packet, pkgCIP_IO>>

mgrVars == <<enable_auto_reconnect, stop_comm_events, start_comm_thread_instance>>
\* Field commands and waveform generation of the CLI; FieldSpec follows them.
cliVars == <<field_cmd, wave_pc, stop_events>>
\* Input and output of the layout compiler; LayoutSpec follows them.
layoutVars == <<schema, layout>>
\* The packet and the last call of the field codec; CodecSpec follows them.
codecVars == <<codec_packet, mut>>
\* Objects used apart from the communication manager; ClientSpec and WaveSpec
\* follow them.
objVars == <<cip_client, cip_call, generators, cli_wave, waveform_manager>>
cfgVars == <<ot_eo_assemblies, to_assemblies, dataVars, cliVars, layoutVars, codecVars,
             service, objVars>>
thrVars == <<attempts, seen>>

\* ----------------------------------------------------------------- helpers
RECURSIVE BitOr(_, _)
BitOr(a, b) ==
    IF a = 0 THEN b
    ELSE IF b = 0 THEN a
    ELSE (IF (a % 2 = 1) \/ (b % 2 = 1) THEN 1 ELSE 0) + 2 * BitOr(a \div 2, b \div 2)

\* is_alive() of a thread object
is_alive(t) == t # None /\ pc[t] \notin {"unborn", "finished"}

\* A client object that client_factory has not produced yet.
NoClient ==
    [state |-> "unborn", Sock |-> "none", MulticastSock |-> "none", Sock1 |-> "none",
     ot_connection_param |-> 0, to_connection_param |-> 0,
     foCalls |-> 0, foOk |-> FALSE,
     recvs |-> 0, sends |-> 0, fcSent |-> 0, closeCalled |-> FALSE,
     sent |-> NoDatagram]

\* Locals of one run_once call and of the manage_io_communication call inside it.
NoFrame ==
    [call |-> "none", client |-> None, ot_param |-> 0, to_param |-> 0, exc |-> FALSE,
     handshake_success |-> FALSE, ioErr |-> FALSE, dgram |-> "none",
     MPU_CTCMSAlive |-> 0, CIP_AppCounter |-> 0]

NoSeen == [auto |-> FALSE, stop |-> FALSE]

\* calculate_connection_params: the sizes are read inside one try block, OT first.
OtSize == IF ot_eo_assemblies \in {NoAsm, BadSize} THEN None ELSE ot_eo_assemblies
ToSize ==
    IF ot_eo_assemblies = BadSize THEN None
    ELSE IF to_assemblies \in {NoAsm, BadSize} THEN None ELSE to_assemblies

\* Variant of line 83 without the 6 bytes of overhead
OtParamOf_NoOverhead(size) == BitOr(OT_BASE, size \div 8)
\* lines 83 and 87
OtParamOf(size) == BitOr(OT_BASE, (size \div 8) + PARAM_OVERHEAD)
ToParamOf(size) == BitOr(TO_BASE, (size \div 8) + PARAM_OVERHEAD)

calculate_connection_params ==
    <<IF OtSize # None THEN OtParamOf(OtSize) ELSE None,
      IF ToSize # None THEN ToParamOf(ToSize) ELSE None>>

\* Client.connected: True if self.Sock else False (a closed socket object is still truthy)
connected(c) == clients[c].Sock # "none"

TypeOK ==
    /\ enable_auto_reconnect \in BOOLEAN
    /\ stop_comm_events \in BOOLEAN
    /\ start_comm_thread_instance \in {None} \cup Threads
    /\ clMPU_CIP_Server \in {None} \cup ClientIds
    /\ bCIPErrorOccured \in BOOLEAN
    /\ lock \in {FreeLock, Wave} \cup Procs \cup {Wave + g : g \in Generators}
    /\ ot_eo_assemblies \in AsmValues \cup ParamSizes
    /\ to_assemblies \in AsmValues \cup ParamSizes
    /\ DOMAIN clients = ClientIds
    /\ DOMAIN pc = Procs
    /\ DOMAIN frame = Procs
    /\ \A t \in Threads : attempts[t] \in 0..MaxAttempts
    /\ TO_packet \in {NoPayload, FreshPayload} \cup Payloads
    /\ OT_packet.hb \in HbKinds \cup {"nopacket"}
    /\ OT_packet.MPU_CTCMSAlive \in 0..ALIVE_MAX
    /\ pkgCIP_IO \in {NoPayload, BadPayload} \cup Payloads
    /\ field_cmd \in {NoCmd} \cup [name : FieldNames, value : FieldValues \cup {"none"}]
    /\ wave_pc \in {"none", "loop", "acquire", "set", "done"}
    /\ stop_events \in {"absent", "clear", "set"}
    /\ schema.total_bits \in -1..(8 * MaxLayoutBytes)
    /\ Len(schema.fields) \in 0..MaxFields
    /\ layout = NoLayout \/ layout.error \in {"none", "MisalignedSize", "FieldOverrun"}
    /\ DOMAIN codec_packet = DOMAIN CodecFields
    /\ mut.count \in 0..MaxMutations
    /\ service.made \in 0..MaxObjects

Init ==
    /\ enable_auto_reconnect = FALSE
    /\ stop_comm_events = FALSE
    /\ start_comm_thread_instance = None
    /\ clMPU_CIP_Server = None
    /\ bCIPErrorOccured = FALSE
    /\ lock = FreeLock
    /\ ot_eo_assemblies = NoAsm
    /\ to_assemblies = NoAsm
    /\ clients = [c \in ClientIds |-> NoClient]
    /\ pc = [p \in Procs |-> IF p = Op THEN "idle" ELSE "unborn"]
    /\ frame = [p \in Procs |-> NoFrame]
    /\ attempts = [t \in Threads |-> 0]
    /\ seen = [t \in Threads |-> NoSeen]
    /\ ret = "none"
    /\ TO_packet = NoPayload
    /\ OT_packet = NoPacket
    /\ pkgCIP_IO = NoPayload
    /\ field_cmd = NoCmd
    /\ wave_pc = "none"
    /\ stop_events = "absent"
    /\ schema = NoSchema
    /\ layout = NoLayout
    /\ codec_packet = DefaultPacket
    /\ mut = NoMut
    /\ service = NoService
    /\ cip_client = NoCip
    /\ cip_call = NoCall
    /\ cli_wave = NoCliWave
    /\ waveform_manager = NoManager
    /\ generators = [g \in Generators |-> NoGenerator]


\* ------------------------------------------------------- the client object
\* Client.close(): self.Sock.close(); if self.MulticastSock: ...close();
\* self.Sock1.close().  A socket that failed to open is None, and calling
\* close() on it raises AttributeError, which ends close() at that line.
CloseRaises(c) == clients[c].Sock = "none" \/ clients[c].Sock1 = "none"

AfterClose(c) ==
    IF clients[c].Sock = "none"
    THEN [clients[c] EXCEPT !.closeCalled = TRUE]
    ELSE [clients[c] EXCEPT
            !.closeCalled = TRUE,
            !.Sock = "closed",
            !.MulticastSock = IF @ = "none" THEN "none" ELSE "closed",
            !.Sock1 = IF @ = "none" THEN "none" ELSE "closed"]

\* The heap of client objects once only the references held by the frames fr
\* and by the current-client reference cur remain: an object nothing refers to
\* is reclaimed, and the objects that remain are numbered from 1 in their old
\* order, in the references as well.
Referenced(fr, cur) == ({cur} \cup {fr[p].client : p \in Procs}) \ {None}

Rank(c, live) == Cardinality({d \in live : d <= c})

Reclaim(cs, fr, cur) ==
    LET live == Referenced(fr, cur)
        new(c) == IF c = None THEN None ELSE Rank(c, live)
    IN [clients |-> [k \in ClientIds |->
                        IF \E c \in live : Rank(c, live) = k
                        THEN cs[CHOOSE c \in live : Rank(c, live) = k]
                        ELSE NoClient],
        frame |-> [p \in Procs |-> [fr[p] EXCEPT !.client = new(@)]],
        cur |-> new(cur)]

\* The heap h becomes the state
Heap(h) ==
    /\ clients' = h.clients
    /\ frame' = h.frame
    /\ clMPU_CIP_Server' = h.cur

Least(S) == CHOOSE x \in S : \A y \in S : x <= y

\* Identities free for a new client object, and for a new thread object (start
\* drops its reference to the finished thread it replaces)
FreeClients == {c \in ClientIds : clients[c].state = "unborn"}
FreeThreads == {t \in Threads : pc[t] \in {"unborn", "finished"}}

\* Where a process goes when its run_once call ends, by return or by exception.
ExitPc(p, raised) ==
    IF p = Op THEN "idle" ELSE IF raised THEN "except" ELSE "after_run"

\* The locals die with the call; a thread's closure keeps ot_param and to_param.
ExitFrame(p) ==
    IF p = Op THEN NoFrame
    ELSE [NoFrame EXCEPT !.ot_param = frame[p].ot_param, !.to_param = frame[p].to_param]

ExitRet(p, raised, result) ==
    IF p # Op THEN ret
    ELSE IF raised THEN "run_once_raised"
    ELSE IF result THEN "run_once_true" ELSE "run_once_false"

\* -------------------------------------------------------------- run_once
\* run_once line 231, _create_client: client_factory is called and the
\* constructor starts.
CreateClient(p, ot, to) ==
    /\ FreeClients # {}
    /\ LET c == Least(FreeClients) IN
       /\ clients' = [clients EXCEPT ![c] = [NoClient EXCEPT !.state = "init"]]
       /\ frame' = [frame EXCEPT ![p] =
                       [NoFrame EXCEPT !.client = c, !.ot_param = ot, !.to_param = to]]
    /\ pc' = [pc EXCEPT ![p] = "ctor"]

\* Client.__init__ ends: each of the three sockets opened or stayed None, the
\* session was registered when the TCP socket is open (the reply is awaited
\* without a timeout), or the exchange raised and no client is returned.
\* Then run_once lines 232-234.
ClientConstruct(p) ==
    /\ pc[p] = "ctor"
    /\ LET c == frame[p].client IN
       \E s \in {"open", "none"}, m \in {"open", "none"}, u \in {"open", "none"},
          raises \in BOOLEAN :
          /\ raises => s = "open"
          /\ IF raises
             THEN /\ Heap(Reclaim(clients, [frame EXCEPT ![p] = ExitFrame(p)],
                                  clMPU_CIP_Server))
                  /\ pc' = [pc EXCEPT ![p] = ExitPc(p, TRUE)]
                  /\ ret' = ExitRet(p, TRUE, FALSE)
                  /\ UNCHANGED bCIPErrorOccured
             ELSE /\ Heap(Reclaim(
                        [clients EXCEPT ![c] =
                            [@ EXCEPT !.state = "live", !.Sock = s,
                                      !.MulticastSock = m, !.Sock1 = u,
                                      !.ot_connection_param = frame[p].ot_param,
                                      !.to_connection_param = frame[p].to_param]],
                        frame, c))
                  /\ bCIPErrorOccured' = FALSE
                  /\ pc' = [pc EXCEPT ![p] = "session"]
                  /\ UNCHANGED ret
    /\ UNCHANGED <<mgrVars, cfgVars, thrVars, lock>>

\* run_once line 237: getattr(client, "connected", False)
SessionEstablished(c) == connected(c)

\* run_once lines 237-241
SessionCheck(p) ==
    /\ pc[p] = "session"
    /\ IF SessionEstablished(frame[p].client)
       THEN /\ pc' = [pc EXCEPT ![p] = "fo_send"]
            /\ UNCHANGED frame
       ELSE /\ pc' = [pc EXCEPT ![p] = "finally"]
            /\ frame' = [frame EXCEPT ![p].exc = TRUE]
    /\ UNCHANGED <<mgrVars, cfgVars, thrVars, clMPU_CIP_Server, bCIPErrorOccured,
                   lock, clients, ret>>

\* run_once line 243, Client.forward_open lines 228-231: the request is sent
\* on the TCP socket; sending on a socket that stop() has closed raises.
ForwardOpenSend(p) ==
    /\ pc[p] = "fo_send"
    /\ LET c == frame[p].client IN
       IF clients[c].Sock = "open"
       THEN /\ clients' = [clients EXCEPT ![c].foCalls = @ + 1]
            /\ pc' = [pc EXCEPT ![p] = "fo_wait"]
            /\ UNCHANGED frame
       ELSE /\ clients' = [clients EXCEPT ![c].foCalls = @ + 1]
            /\ pc' = [pc EXCEPT ![p] = "finally"]
            /\ frame' = [frame EXCEPT ![p].exc = TRUE]
    /\ UNCHANGED <<mgrVars, cfgVars, thrVars, clMPU_CIP_Server, bCIPErrorOccured,
                   lock, ret>>

\* Client.forward_open lines 238-244: True for CIP status 0, False otherwise
ForwardOpenResult(status) == status = "ok"

\* Variant of run_once line 244 that ignores the result of forward_open
ForwardOpenAccepted_Any(bForwoardOpenRspIsOK) == TRUE
\* run_once lines 243-248: the attempt goes on only if forward_open returned True
ForwardOpenAccepted(bForwoardOpenRspIsOK) == bForwoardOpenRspIsOK

\* Client.forward_open lines 232-244 and run_once lines 244-251: the reply
\* arrives (recv without a timeout).  status "ok" is CIP status 0, "rejected"
\* a non-zero status, "error" a reply that cannot be read or a socket closed
\* under the receive.  On success manage_io_communication starts (lines 96-98).
ForwardOpenReply(p) ==
    /\ pc[p] = "fo_wait"
    /\ LET c == frame[p].client IN
       \E status \in {"ok", "rejected", "error"} :
          /\ clients[c].Sock = "closed" => status = "error"
          /\ IF status # "error" /\ ForwardOpenAccepted(ForwardOpenResult(status))
             THEN /\ clients' = [clients EXCEPT ![c].foOk = ForwardOpenResult(status)]
                  /\ frame' = [frame EXCEPT ![p].handshake_success = TRUE,
                                            ![p].MPU_CTCMSAlive = 0,
                                            ![p].CIP_AppCounter = APP_COUNTER_START]
                  /\ pc' = [pc EXCEPT ![p] = "io_top"]
             ELSE /\ clients' = clients
                  /\ frame' = [frame EXCEPT ![p].exc = TRUE]
                  /\ pc' = [pc EXCEPT ![p] = "finally"]
    /\ UNCHANGED <<mgrVars, cfgVars, thrVars, clMPU_CIP_Server, bCIPErrorOccured,
                   lock, ret>>


\* ------------------------------------------------ manage_io_communication
\* Variant of lines 115-118 that wraps one cycle late
NextAlive_Late(v) == IF v > ALIVE_MAX THEN 0 ELSE v + 1
\* lines 115-118
NextAlive(v) == IF v >= ALIVE_MAX THEN 0 ELSE v + 1

\* Variant of lines 134-137 without the wrap
NextAppCounter_NoWrap(v) == v + 1
\* lines 134-137
NextAppCounter(v) == IF v < APP_COUNTER_MAX THEN v + 1 ELSE 0

\* Variant of lines 145-149 that returns without raising the error flag
ErrorOnNoDatagram_Cleared == FALSE
\* lines 145-149: the value returned when the receive yields no datagram
ErrorOnNoDatagram == TRUE

\* line 100 (while not bCIPErrorOccured) and line 101, the call of
\* recv_UDP_ENIP_CIP_IO (tgv2020.py lines 171-177): no multicast socket gives
\* None at once; settimeout on a socket that stop() has closed raises outside
\* the method's try block; otherwise the receive waits.
IoRecvCall(p) ==
    /\ pc[p] = "io_top"
    /\ LET c == frame[p].client IN
       CASE clients[c].MulticastSock = "none" ->
                /\ frame' = [frame EXCEPT ![p].ioErr = ErrorOnNoDatagram]
                /\ pc' = [pc EXCEPT ![p] = "after_io"]
         [] clients[c].MulticastSock = "closed" ->
                /\ frame' = [frame EXCEPT ![p].exc = TRUE]
                /\ pc' = [pc EXCEPT ![p] = "finally"]
         [] OTHER ->
                /\ frame' = frame
                /\ pc' = [pc EXCEPT ![p] = "io_wait"]
    /\ UNCHANGED <<mgrVars, cfgVars, thrVars, clMPU_CIP_Server, bCIPErrorOccured,
                   lock, clients, ret>>

\* recv_UDP_ENIP_CIP_IO returns (tgv2020.py lines 180-201, comm.py lines
\* 103, 144-149): a datagram whose payload decodes ("good"), a datagram
\* without a decodable payload ("bad"), or None after the timeout or after the
\* socket was closed under the receive.
IoRecvReturn(p) ==
    /\ pc[p] = "io_wait"
    /\ LET c == frame[p].client IN
       \E kind \in {"good", "bad", "none"} :
          /\ kind # "none" => (clients[c].MulticastSock = "open" /\ clients[c].recvs < MaxCycles)
          /\ IF kind = "none"
             THEN /\ frame' = [frame EXCEPT ![p].ioErr = ErrorOnNoDatagram]
                  /\ pc' = [pc EXCEPT ![p] = "after_io"]
                  /\ clients' = clients
             ELSE /\ frame' = [frame EXCEPT ![p].dgram = kind]
                  /\ pc' = [pc EXCEPT ![p] = "io_decode"]
                  /\ clients' = [clients EXCEPT ![c].recvs = @ + 1]
    /\ UNCHANGED <<mgrVars, cfgVars, thrVars, clMPU_CIP_Server, bCIPErrorOccured,
                   lock, ret>>

\* lines 106-110: the lock is taken, the inbound payload is decoded into the
\* TO packet, the lock is released.  A payload that cannot be read raises
\* between acquire() and release().
IoDecode(p) ==
    /\ pc[p] = "io_decode"
    /\ lock = FreeLock
    /\ IF frame[p].dgram = "bad"
       THEN /\ lock' = p
            /\ frame' = [frame EXCEPT ![p].exc = TRUE, ![p].dgram = "none"]
            /\ pc' = [pc EXCEPT ![p] = "finally"]
       ELSE /\ lock' = FreeLock
            /\ frame' = [frame EXCEPT ![p].dgram = "none"]
            /\ pc' = [pc EXCEPT ![p] = "io_send"]
    /\ UNCHANGED <<mgrVars, cfgVars, thrVars, clMPU_CIP_Server, bCIPErrorOccured,
                   clients, ret>>

\* lines 112-142 with a parsed TO packet: heartbeat, send_UDP_ENIP_CIP_IO
\* (tgv2020.py lines 204-223), sequence counter, release.  Without a unicast
\* socket the method only logs and no datagram leaves (lines 219-223); on a
\* socket that stop() has closed the send raises between acquire() and
\* release().
IoSend(p) ==
    /\ pc[p] = "io_send"
    /\ lock = FreeLock
    /\ LET c == frame[p].client IN
       IF clients[c].Sock1 = "closed"
       THEN /\ lock' = p
            /\ frame' = [frame EXCEPT ![p].exc = TRUE,
                                      ![p].MPU_CTCMSAlive = NextAlive(@)]
            /\ pc' = [pc EXCEPT ![p] = "finally"]
            /\ clients' = clients
       ELSE /\ lock' = FreeLock
            /\ frame' = [frame EXCEPT ![p].MPU_CTCMSAlive = NextAlive(@),
                                      ![p].CIP_AppCounter = NextAppCounter(@)]
            /\ pc' = [pc EXCEPT ![p] = "io_top"]
            /\ clients' = [clients EXCEPT
                              ![c].sends = IF clients[c].Sock1 = "open" THEN @ + 1 ELSE @]
    /\ UNCHANGED <<mgrVars, cfgVars, thrVars, clMPU_CIP_Server, bCIPErrorOccured,
                   ret>>

\* run_once lines 251-256: the loop's result is stored; Forward Close is sent
\* only after a loop that ended without error (Client.forward_close lines
\* 248-250).
RunOnceAfterIo(p) ==
    /\ pc[p] = "after_io"
    /\ bCIPErrorOccured' = frame[p].ioErr
    /\ LET c == frame[p].client IN
       IF ~frame[p].ioErr
       THEN IF clients[c].Sock = "open"
            THEN /\ clients' = [clients EXCEPT ![c].fcSent = @ + 1]
                 /\ pc' = [pc EXCEPT ![p] = "ro_fc_wait"]
                 /\ frame' = frame
            ELSE /\ clients' = clients
                 /\ pc' = [pc EXCEPT ![p] = "finally"]
                 /\ frame' = [frame EXCEPT ![p].exc = TRUE]
       ELSE /\ clients' = clients
            /\ pc' = [pc EXCEPT ![p] = "finally"]
            /\ frame' = frame
    /\ UNCHANGED <<mgrVars, cfgVars, thrVars, clMPU_CIP_Server, lock, ret>>

\* run_once lines 257-260, the finally block: client.close(), then the
\* current-client reference is cleared unless close() raised; run_once ends.
RunOnceFinally(p) ==
    /\ pc[p] = "finally"
    /\ LET c == frame[p].client
           raised == frame[p].exc \/ CloseRaises(c)
       IN /\ Heap(Reclaim([clients EXCEPT ![c] = AfterClose(c)],
                           [frame EXCEPT ![p] = ExitFrame(p)],
                           IF CloseRaises(c) THEN clMPU_CIP_Server ELSE None))
          /\ pc' = [pc EXCEPT ![p] = ExitPc(p, raised)]
          /\ ret' = ExitRet(p, raised, frame[p].handshake_success)
    /\ UNCHANGED <<mgrVars, cfgVars, thrVars, bCIPErrorOccured, lock>>


\* ------------------------------------------- start_comm_thread (the loop)
\* Variant of line 174 with the negation dropped
WhileCond_Inverted == enable_auto_reconnect \/ stop_comm_events
\* line 174: while self.enable_auto_reconnect or not self.stop_comm_events.is_set()
WhileCond == enable_auto_reconnect \/ ~stop_comm_events

\* Variant of line 180 that never retries after an exception
RetryAfterError_Never == FALSE
\* line 180: the retry decision after an exception
RetryAfterError == enable_auto_reconnect /\ ~stop_comm_events

\* line 187 and line 197: if self.stop_comm_events.is_set(): break
StopObserved == stop_comm_events

\* Variant of line 190 without the break
ManualExit_Never == FALSE
\* line 190: if not self.enable_auto_reconnect: break
ManualExit == ~enable_auto_reconnect

Min(a, b) == IF a < b THEN a ELSE b

\* lines 174-177: the loop condition; when it holds the next attempt starts
\* (run_once is called with the parameters captured by start()), otherwise
\* the thread finishes (line 200).
ThreadLoopTest(t) ==
    /\ pc[t] = "while"
    /\ IF WhileCond
       THEN /\ CreateClient(t, frame[t].ot_param, frame[t].to_param)
            /\ attempts' = [attempts EXCEPT ![t] = Min(@ + 1, MaxAttempts)]
       ELSE /\ pc' = [pc EXCEPT ![t] = "finished"]
            /\ UNCHANGED <<clients, frame, attempts>>
    /\ UNCHANGED <<mgrVars, cfgVars, seen, clMPU_CIP_Server, bCIPErrorOccured, lock, ret>>

\* lines 178-185: the except clause
ThreadExcept(t) ==
    /\ pc[t] = "except"
    /\ pc' = [pc EXCEPT ![t] = IF RetryAfterError THEN "sleep_exc" ELSE "finished"]
    /\ UNCHANGED <<mgrVars, cfgVars, thrVars, clMPU_CIP_Server, bCIPErrorOccured,
                   lock, clients, frame, ret>>

\* lines 182-183: time.sleep(2); continue
ThreadSleepExc(t) ==
    /\ pc[t] = "sleep_exc"
    /\ pc' = [pc EXCEPT ![t] = "while"]
    /\ UNCHANGED <<mgrVars, cfgVars, thrVars, clMPU_CIP_Server, bCIPErrorOccured,
                   lock, clients, frame, ret>>

\* lines 187-188
ThreadCheckStop(t) ==
    /\ pc[t] = "after_run"
    /\ pc' = [pc EXCEPT ![t] = IF StopObserved THEN "finished" ELSE "check_auto"]
    /\ UNCHANGED <<mgrVars, cfgVars, thrVars, clMPU_CIP_Server, bCIPErrorOccured,
                   lock, clients, frame, ret>>

\* lines 190-192
ThreadCheckAuto(t) ==
    /\ pc[t] = "check_auto"
    /\ pc' = [pc EXCEPT ![t] = IF ManualExit THEN "finished" ELSE "sleep"]
    /\ UNCHANGED <<mgrVars, cfgVars, thrVars, clMPU_CIP_Server, bCIPErrorOccured,
                   lock, clients, frame, ret>>

\* lines 194-195: time.sleep(2)
ThreadSleep(t) ==
    /\ pc[t] = "sleep"
    /\ pc' = [pc EXCEPT ![t] = "check_stop2"]
    /\ UNCHANGED <<mgrVars, cfgVars, thrVars, clMPU_CIP_Server, bCIPErrorOccured,
                   lock, clients, frame, ret>>

\* lines 197-198
ThreadCheckStopAfterSleep(t) ==
    /\ pc[t] = "check_stop2"
    /\ pc' = [pc EXCEPT ![t] = IF StopObserved THEN "finished" ELSE "while"]
    /\ UNCHANGED <<mgrVars, cfgVars, thrVars, clMPU_CIP_Server, bCIPErrorOccured,
                   lock, clients, frame, ret>>

\* ------------------------------------------------ the operator's calls
\* What the live threads have seen: the policy enabled, the stop flag set.
SeenWith(a, s) ==
    [t \in Threads |->
        IF is_alive(t)
        THEN [auto |-> seen[t].auto \/ a, stop |-> seen[t].stop \/ s]
        ELSE seen[t]]

\* A finished thread object that the manager no longer refers to (handle h)
\* is reclaimed.
Gone(t, h) == pc[t] = "finished" /\ t # h

\* config_service.check_ot_eo / check_to (config.py lines 181, 203): a load
\* replaces each assembly element it finds and leaves the other as it was.
OpLoadConfig ==
    /\ pc[Op] = "idle"
    /\ \E ot \in (AsmValues \ {NoAsm}) \cup {ot_eo_assemblies},
          to \in (AsmValues \ {NoAsm}) \cup {to_assemblies} :
          /\ ot_eo_assemblies' = ot
          /\ to_assemblies' = to
    /\ ret' = "none"
    /\ UNCHANGED <<mgrVars, thrVars, clMPU_CIP_Server, bCIPErrorOccured, lock,
                   clients, pc, frame, dataVars, cliVars, layoutVars, codecVars, service, objVars>>

\* Variant of start line 156 that does not look at the running thread
AlreadyRunning_Never == FALSE
\* start lines 156-159, stop lines 322-325 and 337-340
AlreadyRunning ==
    start_comm_thread_instance # None /\ is_alive(start_comm_thread_instance)

\* Variant of start line 169 that refuses only when both are missing
ParamsUnavailable_Both(ot, to) == ot = None /\ to = None
\* start line 169, run_once lines 225, 227
ParamsUnavailable(ot, to) == ot = None \/ to = None

\* start lines 173-211: the stop flag is cleared, the thread is created with
\* the parameters in its closure and started; it is alive from then on.
SpawnThread(ot, to) ==
    /\ FreeThreads # {}
    /\ LET t == Least(FreeThreads) IN
       /\ stop_comm_events' = FALSE
       /\ start_comm_thread_instance' = t
       /\ pc' = [p \in Procs |->
                    IF p = t THEN "while"
                    ELSE IF p \in Threads /\ Gone(p, t) THEN "unborn" ELSE pc[p]]
       /\ frame' = [p \in Procs |->
                    IF p = t THEN [NoFrame EXCEPT !.ot_param = ot, !.to_param = to]
                    ELSE IF p \in Threads /\ Gone(p, t) THEN NoFrame ELSE frame[p]]
       /\ attempts' = [p \in Threads |->
                    IF p = t \/ Gone(p, t) THEN 0 ELSE attempts[p]]
       /\ seen' = [p \in Threads |->
                    IF p = t THEN [auto |-> enable_auto_reconnect, stop |-> FALSE]
                    ELSE IF Gone(p, t) THEN NoSeen ELSE seen[p]]
    /\ UNCHANGED enable_auto_reconnect

\* start(), lines 153-211
OpStart ==
    /\ pc[Op] = "idle"
    /\ LET params == calculate_connection_params
       IN IF AlreadyRunning
          THEN /\ ret' = "start_ignored"
               /\ UNCHANGED <<mgrVars, thrVars, pc, frame>>
          ELSE IF ParamsUnavailable(params[1], params[2])
          THEN /\ ret' = "start_no_params"
               /\ UNCHANGED <<mgrVars, thrVars, pc, frame>>
          ELSE /\ SpawnThread(params[1], params[2])
               /\ ret' = "none"
    /\ UNCHANGED <<cfgVars, clMPU_CIP_Server, bCIPErrorOccured, lock, clients>>

\* run_once() called by the operator without parameters, lines 225-231.
\* The helper runs one attempt synchronously, "without spawning background
\* threads" (lines 219-223): the operator runs an attempt of its own only
\* while no communication thread is alive.
OpRunOnce ==
    /\ pc[Op] = "idle"
    /\ LET params == calculate_connection_params IN
       IF ParamsUnavailable(params[1], params[2])
       THEN /\ ret' = "run_once_false"
            /\ UNCHANGED <<clients, frame, pc>>
       ELSE /\ \A t \in Threads : ~is_alive(t)
            /\ CreateClient(Op, params[1], params[2])
            /\ ret' = "none"
    /\ UNCHANGED <<mgrVars, cfgVars, thrVars, clMPU_CIP_Server, bCIPErrorOccured, lock>>

\* enable_auto(), lines 294-296
OpEnableAuto ==
    /\ pc[Op] = "idle"
    /\ enable_auto_reconnect' = TRUE
    /\ seen' = SeenWith(TRUE, FALSE)
    /\ ret' = "none"
    /\ UNCHANGED <<stop_comm_events, start_comm_thread_instance, cfgVars, attempts,
                   clMPU_CIP_Server, bCIPErrorOccured, lock, clients, pc, frame>>

\* disable_auto(), lines 298-301: the policy is cleared, then stop() runs
OpDisableAuto ==
    /\ pc[Op] = "idle"
    /\ enable_auto_reconnect' = FALSE
    /\ pc' = [pc EXCEPT ![Op] = "stop_set"]
    /\ frame' = [frame EXCEPT ![Op].call = "disable_auto"]
    /\ ret' = "none"
    /\ UNCHANGED <<stop_comm_events, start_comm_thread_instance, cfgVars, thrVars,
                   clMPU_CIP_Server, bCIPErrorOccured, lock, clients>>

\* stop() is called, line 304
OpStop ==
    /\ pc[Op] = "idle"
    /\ pc' = [pc EXCEPT ![Op] = "stop_set"]
    /\ frame' = [frame EXCEPT ![Op].call = "stop"]
    /\ ret' = "none"
    /\ UNCHANGED <<mgrVars, cfgVars, thrVars, clMPU_CIP_Server, bCIPErrorOccured, lock,
                   clients>>

\* stop lines 305-306: the stop flag is set
StopSet ==
    /\ pc[Op] = "stop_set"
    /\ stop_comm_events' = TRUE
    /\ seen' = SeenWith(FALSE, TRUE)
    /\ pc' = [pc EXCEPT ![Op] = "stop_fc"]
    /\ UNCHANGED <<enable_auto_reconnect, start_comm_thread_instance, cfgVars,
                   attempts, clMPU_CIP_Server, bCIPErrorOccured, lock, clients,
                   frame, ret>>

\* stop lines 309-314, Client.forward_close lines 248-252.  Without a current
\* client stop goes on to the join.  With one, the Forward Close request is
\* sent on its TCP socket and the reply is awaited; with no TCP socket, or
\* with a send that raises on a closed socket (caught and logged), stop goes
\* on to close().
StopForwardClose ==
    /\ pc[Op] = "stop_fc"
    /\ LET c == clMPU_CIP_Server IN
       IF c = None
       THEN /\ pc' = [pc EXCEPT ![Op] = "stop_join"]
            /\ UNCHANGED <<clients, frame>>
       ELSE IF clients[c].Sock = "open"
       THEN /\ clients' = [clients EXCEPT ![c].fcSent = @ + 1]
            /\ frame' = [frame EXCEPT ![Op].client = c]
            /\ pc' = [pc EXCEPT ![Op] = "stop_fc_wait"]
       ELSE /\ pc' = [pc EXCEPT ![Op] = "stop_close"]
            /\ UNCHANGED <<clients, frame>>
    /\ UNCHANGED <<mgrVars, cfgVars, thrVars, clMPU_CIP_Server, bCIPErrorOccured, lock,
                   ret>>

\* Client.forward_close lines 253-260: the reply to a Forward Close arrives
\* (recv without a timeout), or the receive fails on a closed socket.  In
\* stop() every outcome, an exception included (lines 313-314), leads on to
\* close(); in run_once (line 254) an exception leaves through finally.
ForwardCloseReply(p) ==
    /\ pc[p] \in {"stop_fc_wait", "ro_fc_wait"}
    /\ LET c == frame[p].client IN
       \E status \in {"ok", "rejected", "error"} :
          /\ clients[c].Sock = "closed" => status = "error"
          /\ IF pc[p] = "stop_fc_wait"
             THEN /\ pc' = [pc EXCEPT ![p] = "stop_close"]
                  /\ Heap(Reclaim(clients, [frame EXCEPT ![p].client = None],
                                  clMPU_CIP_Server))
             ELSE /\ pc' = [pc EXCEPT ![p] = "finally"]
                  /\ frame' = [frame EXCEPT ![p].exc = (status = "error")]
                  /\ UNCHANGED <<clients, clMPU_CIP_Server>>
    /\ UNCHANGED <<mgrVars, cfgVars, thrVars, bCIPErrorOccured, lock, ret>>

\* stop lines 316-320: close() on the current client; an exception (no
\* current client any more, or a socket that is None) is caught and logged.
StopClose ==
    /\ pc[Op] = "stop_close"
    /\ LET c == clMPU_CIP_Server IN
       IF c # None
       THEN clients' = [clients EXCEPT ![c] = AfterClose(c)]
       ELSE clients' = clients
    /\ pc' = [pc EXCEPT ![Op] = "stop_join"]
    /\ UNCHANGED <<mgrVars, cfgVars, thrVars, clMPU_CIP_Server, bCIPErrorOccured, lock,
                   frame, ret>>

\* Variant of stop lines 326-331 that drops the handle after any join
HandleAfterJoin_Cleared == None
\* stop lines 327-331: the handle after join(timeout=5) has returned
HandleAfterJoin ==
    IF is_alive(start_comm_thread_instance) THEN start_comm_thread_instance ELSE None

\* stop lines 322-331: a thread that is alive at line 322 is joined, and
\* join(timeout=5) returns because the thread has finished or because the
\* timeout has passed; a thread that is not alive at line 322 is not joined
\* and its handle stays until the finally block.  A thread that is alive now
\* was alive at line 322; one that is not has finished before or during the
\* join.
StopJoin ==
    /\ pc[Op] = "stop_join"
    /\ \E joined \in BOOLEAN :
          /\ joined => start_comm_thread_instance # None
          /\ AlreadyRunning => joined
          /\ start_comm_thread_instance' =
                 IF joined THEN HandleAfterJoin ELSE start_comm_thread_instance
    /\ pc' = [pc EXCEPT ![Op] = "stop_finally"]
    /\ UNCHANGED <<enable_auto_reconnect, stop_comm_events, cfgVars, thrVars,
                   clMPU_CIP_Server, bCIPErrorOccured, lock, clients, frame, ret>>

\* Variant of stop lines 336-343 that always drops the handle
HandleAtReturn_Cleared == None
\* stop lines 336-343: the handle when stop() returns
HandleAtReturn ==
    IF AlreadyRunning THEN start_comm_thread_instance ELSE None

\* stop lines 336-343, the finally block; stop() returns
StopFinally ==
    /\ pc[Op] = "stop_finally"
    /\ start_comm_thread_instance' = HandleAtReturn
    /\ pc' = [p \in Procs |-> IF p = Op THEN "idle"
                              ELSE IF Gone(p, HandleAtReturn) THEN "unborn" ELSE pc[p]]
    /\ frame' = [p \in Procs |-> IF p = Op \/ Gone(p, HandleAtReturn) THEN NoFrame
                                 ELSE frame[p]]
    /\ attempts' = [p \in Threads |-> IF Gone(p, HandleAtReturn) THEN 0 ELSE attempts[p]]
    /\ seen' = [p \in Threads |-> IF Gone(p, HandleAtReturn) THEN NoSeen ELSE seen[p]]
    /\ ret' = "none"
    /\ UNCHANGED <<enable_auto_reconnect, stop_comm_events, cfgVars,
                   clMPU_CIP_Server, bCIPErrorOccured, lock, clients>>

\* ------------------------------------------------------- specification
\* The operator's calls: load a configuration, start, run_once, enable_auto,
\* disable_auto, stop and the steps of stop
OperatorStep ==
    \/ OpLoadConfig
    \/ OpStart
    \/ OpRunOnce
    \/ OpEnableAuto
    \/ OpDisableAuto
    \/ OpStop
    \/ StopSet
    \/ StopForwardClose
    \/ StopClose
    \/ StopJoin
    \/ StopFinally

\* Steps of run_once that need nothing from the target
RunOnceLocal(p) ==
    \/ SessionCheck(p)
    \/ ForwardOpenSend(p)
    \/ IoRecvCall(p)
    \/ IoDecode(p)
    \/ IoSend(p)
    \/ RunOnceAfterIo(p)
    \/ RunOnceFinally(p)

\* Steps that end a wait on the target: a reply, a datagram or a timeout
RunOnceReceive(p) ==
    \/ ClientConstruct(p)
    \/ ForwardOpenReply(p)
    \/ IoRecvReturn(p)
    \/ ForwardCloseReply(p)

ThreadStep(t) ==
    \/ ThreadLoopTest(t)
    \/ ThreadExcept(t)
    \/ ThreadSleepExc(t)
    \/ ThreadCheckStop(t)
    \/ ThreadCheckAuto(t)
    \/ ThreadSleep(t)
    \/ ThreadCheckStopAfterSleep(t)

Next ==
    \/ OperatorStep
    \/ \E p \in Procs : RunOnceLocal(p)
    \/ \E p \in Procs : RunOnceReceive(p)
    \/ \E t \in Threads : ThreadStep(t)

Spec == Init /\ [][Next]_vars


\* ------------------------------------------------------------ fairness
\* The steps of stop() that wait on nothing
StopLocal ==
    \/ StopSet
    \/ StopForwardClose
    \/ StopClose
    \/ StopJoin
    \/ StopFinally

\* The scheduler runs every thread that can run, sleep(2) and join(timeout=5)
\* return, and the cyclic receive returns within its 0.5 s timeout.  Nothing
\* makes the target answer: the session registration, the Forward Open reply
\* and the Forward Close reply are awaited without a timeout.
Fairness ==
    /\ WF_vars(StopLocal)
    /\ \A t \in Threads : WF_vars(ThreadStep(t) \/ RunOnceLocal(t) \/ IoRecvReturn(t))

FairSpec == Spec /\ Fairness

\* ------------------------------------------------------------ StreamSpec
\* The cyclic exchange with the contents of the packets and of the datagrams:
\* run_once called synchronously by the operator (as tests/test_comm.py does)
\* on a loaded configuration, one connection after the other.

\* recv_UDP_ENIP_CIP_IO returns (tgv2020.py lines 180-201, comm.py lines 101,
\* 103, 144-149): a datagram with its payload, or None after the timeout.
StreamRecvReturn ==
    /\ pc[Op] = "io_wait"
    /\ LET c == frame[Op].client IN
       \/ /\ clients[c].MulticastSock = "open"
          /\ clients[c].recvs < MaxStreamCycles
          /\ \E payload \in Payloads \cup {BadPayload} : pkgCIP_IO' = payload
          /\ clients' = [clients EXCEPT ![c].recvs = @ + 1]
          /\ pc' = [pc EXCEPT ![Op] = "io_decode"]
          /\ frame' = frame
       \/ /\ pkgCIP_IO' = NoPayload
          /\ frame' = [frame EXCEPT ![Op].ioErr = ErrorOnNoDatagram]
          /\ pc' = [pc EXCEPT ![Op] = "after_io"]
          /\ clients' = clients
    /\ UNCHANGED <<mgrVars, ot_eo_assemblies, to_assemblies, thrVars, clMPU_CIP_Server,
                   bCIPErrorOccured, lock, ret, TO_packet, OT_packet, cliVars, layoutVars, codecVars, service, objVars>>

\* lines 106-110: under the lock, TO_packet = TO_packet_class(payload).  A
\* payload that cannot be read raises before the assignment, between
\* acquire() and release().
StreamDecode ==
    /\ pc[Op] = "io_decode"
    /\ lock = FreeLock
    /\ IF pkgCIP_IO = BadPayload
       THEN /\ lock' = Op
            /\ frame' = [frame EXCEPT ![Op].exc = TRUE]
            /\ pc' = [pc EXCEPT ![Op] = "finally"]
            /\ TO_packet' = TO_packet
       ELSE /\ lock' = FreeLock
            /\ frame' = frame
            /\ pc' = [pc EXCEPT ![Op] = "io_send"]
            /\ TO_packet' = pkgCIP_IO
    /\ UNCHANGED <<mgrVars, ot_eo_assemblies, to_assemblies, thrVars, clMPU_CIP_Server,
                   bCIPErrorOccured, clients, ret, OT_packet, pkgCIP_IO, cliVars,
                   layoutVars, codecVars, service, objVars>>

\* _set_heartbeat, lines 285-292: the value is written only into a packet
\* that exists and whose class declares the field as a ByteField
set_heartbeat(packet, field_value) ==
    IF packet.hb = "byte" THEN [packet EXCEPT !.MPU_CTCMSAlive = field_value] ELSE packet

\* The heartbeat a datagram built from the packet carries (-1: the packet has
\* no such field)
CarriedAlive(packet) == IF packet.hb = "absent" THEN -1 ELSE packet.MPU_CTCMSAlive

\* lines 112-142: under the lock, the heartbeat counter advances and is
\* written into the OT packet, send_UDP_ENIP_CIP_IO builds the datagram from
\* CIP_AppCounter and the OT packet and hands it to Sock1 (tgv2020.py lines
\* 204-223), the sequence counter advances, the lock is released.  Without an
\* OT packet len(AppData) raises, on a closed socket the send raises, both
\* between acquire() and release(); without a unicast socket nothing leaves.
StreamSend ==
    /\ pc[Op] = "io_send"
    /\ lock = FreeLock
    /\ LET c == frame[Op].client
           alive == NextAlive(frame[Op].MPU_CTCMSAlive)
           packet == set_heartbeat(OT_packet, alive)
       IN /\ OT_packet' = packet
          /\ IF packet = NoPacket \/ clients[c].Sock1 = "closed"
             THEN /\ lock' = Op
                  /\ frame' = [frame EXCEPT ![Op].exc = TRUE,
                                            ![Op].MPU_CTCMSAlive = alive]
                  /\ pc' = [pc EXCEPT ![Op] = "finally"]
                  /\ clients' = clients
             ELSE /\ lock' = FreeLock
                  /\ frame' = [frame EXCEPT ![Op].MPU_CTCMSAlive = alive,
                                            ![Op].CIP_AppCounter = NextAppCounter(@)]
                  /\ pc' = [pc EXCEPT ![Op] = "io_top"]
                  /\ IF clients[c].Sock1 = "open"
                     THEN clients' = [clients EXCEPT
                                        ![c].sends = @ + 1,
                                        ![c].sent = [seq |-> frame[Op].CIP_AppCounter,
                                                     alive |-> CarriedAlive(packet)]]
                     ELSE clients' = clients
    /\ UNCHANGED <<mgrVars, ot_eo_assemblies, to_assemblies, thrVars, clMPU_CIP_Server,
                   bCIPErrorOccured, ret, TO_packet, pkgCIP_IO, cliVars, layoutVars, codecVars, service, objVars>>

\* A configuration has been loaded: both assemblies are there, the TO packet
\* is a fresh instance, the OT packet is a fresh instance of a class that
\* declares the heartbeat one way or another, or None when its layout could
\* not be built (config.py lines 181-192, 424-438).
StreamInit ==
    /\ enable_auto_reconnect = FALSE
    /\ stop_comm_events = FALSE
    /\ start_comm_thread_instance = None
    /\ clMPU_CIP_Server = None
    /\ bCIPErrorOccured = FALSE
    /\ lock = FreeLock
    /\ ot_eo_assemblies \in AsmSizes
    /\ to_assemblies \in AsmSizes
    /\ clients = [c \in ClientIds |-> NoClient]
    /\ pc = [p \in Procs |-> IF p = Op THEN "idle" ELSE "unborn"]
    /\ frame = [p \in Procs |-> NoFrame]
    /\ attempts = [t \in Threads |-> 0]
    /\ seen = [t \in Threads |-> NoSeen]
    /\ ret = "none"
    /\ TO_packet = FreshPayload
    /\ OT_packet \in {NoPacket} \cup {FreshPacket(kind) : kind \in HbKinds}
    /\ pkgCIP_IO = NoPayload
    /\ field_cmd = NoCmd
    /\ wave_pc = "none"
    /\ stop_events = "absent"
    /\ schema = NoSchema
    /\ layout = NoLayout
    /\ codec_packet = DefaultPacket
    /\ mut = NoMut
    /\ service = NoService
    /\ cip_client = NoCip
    /\ cip_call = NoCall
    /\ cli_wave = NoCliWave
    /\ waveform_manager = NoManager
    /\ generators = [g \in Generators |-> NoGenerator]

StreamNext ==
    \/ OpRunOnce
    \/ ClientConstruct(Op)
    \/ SessionCheck(Op)
    \/ ForwardOpenSend(Op)
    \/ ForwardOpenReply(Op)
    \/ IoRecvCall(Op)
    \/ StreamRecvReturn
    \/ StreamDecode
    \/ StreamSend
    \/ RunOnceAfterIo(Op)
    \/ RunOnceFinally(Op)

StreamSpec == StreamInit /\ [][StreamNext]_vars

\* ------------------------------------------------------------- claims
AnyThreadAlive == \E t \in Threads : is_alive(t)

\* A thread starts a connection attempt in this step
StartsAttempt(t) == pc[t] # "ctor" /\ pc'[t] = "ctor"

\* A thread leaves its loop in this step
Exits(t) == is_alive(t) /\ pc'[t] = "finished"

StopPcs == {"stop_set", "stop_fc", "stop_fc_wait", "stop_close", "stop_join", "stop_finally"}

\* C1: a thread whose whole run had auto-reconnect disabled makes at most one
\* connection attempt, and when it has exited without a stop request it has
\* made exactly one.
C1_OneAttemptWhenManual ==
    \A t \in Threads :
        ~seen[t].auto =>
            /\ attempts[t] <= 1
            /\ (pc[t] = "finished" /\ ~seen[t].stop) => attempts[t] = 1

\* C1 witness: with auto-reconnect never enabled and no stop request, the loop
\* has exited after one attempt that ended with an I/O error
C1_Witness ==
    \E t \in Threads :
        /\ pc[t] = "finished"
        /\ ~seen[t].auto /\ ~seen[t].stop
        /\ attempts[t] = 1
        /\ bCIPErrorOccured

\* C2: a thread leaves its loop only in a step taken with the policy off or
\* the stop flag set, and whenever one of its attempts has ended (with an
\* exception or with an I/O error) it goes on to a new attempt unless the
\* policy is switched off or a stop is requested.
C2_RetriesForever ==
    /\ [][\A t \in Threads :
            Exits(t) => (~enable_auto_reconnect \/ stop_comm_events)]_vars
    /\ \A t \in Threads :
          (pc[t] \in {"except", "after_run"})
              ~> (pc[t] = "ctor" \/ ~enable_auto_reconnect \/ stop_comm_events)

\* C2 witness: with the policy on for the thread's whole run and no stop
\* request, a failed attempt has been followed by a new one
C2_Witness ==
    \E t \in Threads :
        /\ pc[t] = "ctor"
        /\ attempts[t] >= 2
        /\ seen[t].auto /\ ~seen[t].stop
        /\ enable_auto_reconnect /\ ~stop_comm_events

\* C3: once the stop flag is set, no thread starts a connection attempt (no
\* new client is created), whatever phase the loop is in.
C3_NoAttemptAfterStop ==
    [][stop_comm_events => \A t \in Threads : ~StartsAttempt(t)]_vars

\* C4: once the stop flag is set, the streaming loop starts no further
\* receive/send cycle: it ends at the cycle boundary.
C4_NoCycleAfterStop ==
    [][stop_comm_events =>
          \A p \in Procs : ~(pc[p] = "io_top" /\ pc'[p] = "io_wait")]_vars

\* C5: stop() runs to its end from any state: each of its steps leads to the
\* next one or to the return, a Forward Close or close() that fails is
\* followed by the join all the same, and in the state it returns in the
\* thread handle is None exactly when no communication thread is alive.
C5_StopReturnsClean ==
    [][/\ (pc[Op] \in StopPcs) => (pc'[Op] \in StopPcs \cup {"idle"})
       /\ (pc[Op] \in {"stop_fc_wait", "stop_close"} /\ pc'[Op] # pc[Op])
              => pc'[Op] \in {"stop_close", "stop_join"}
       /\ (pc[Op] = "stop_finally" /\ pc'[Op] = "idle")
              => /\ ret' = "none"
                 /\ (start_comm_thread_instance' = None) <=> ~AnyThreadAlive'
                 /\ start_comm_thread_instance' # None
                        => pc'[start_comm_thread_instance']
                               \notin {"unborn", "finished"}]_vars

\* C5 witness: stop() has returned while the thread, blocked on the target,
\* outlived the join; the handle is kept
C5_Witness ==
    /\ pc[Op] = "idle"
    /\ stop_comm_events
    /\ start_comm_thread_instance # None
    /\ pc[start_comm_thread_instance] \in {"ctor", "fo_wait"}

\* C6: a call of stop() (or of disable_auto(), which ends in stop()) that has
\* begun returns, whatever the target does; start() and enable_auto() are
\* single steps.
C6_StopReturns == (pc[Op] \in StopPcs) ~> (pc[Op] = "idle")

\* C7: a start() issued while a communication thread is alive changes
\* nothing: no thread, no client, and the stop flag, the handle and the
\* policy keep their values.
C7_StartWhileAliveIsNoOp ==
    [][(OpStart /\ AnyThreadAlive /\ start_comm_thread_instance # None)
          => /\ UNCHANGED <<enable_auto_reconnect, stop_comm_events,
                            start_comm_thread_instance, clMPU_CIP_Server,
                            bCIPErrorOccured, lock, clients, pc, frame, attempts>>
             /\ ret' = "start_ignored"]_vars

\* C7 witness: start() has been refused while a thread was alive
C7_Witness ==
    /\ ret = "start_ignored"
    /\ AnyThreadAlive
    /\ pc[Op] = "idle"

\* An assembly the configuration does not provide, or whose size cannot be read
Unavailable(asm) == asm \in {NoAsm, BadSize}

\* C8: with the OT_EO or the TO assembly unavailable, start() and run_once()
\* create no thread and no client and leave the manager as it was, and
\* run_once() returns False.
C8_NoParamsNoAttempt ==
    [][((OpStart \/ OpRunOnce)
            /\ (Unavailable(ot_eo_assemblies) \/ Unavailable(to_assemblies)))
          => /\ UNCHANGED <<enable_auto_reconnect, stop_comm_events,
                            start_comm_thread_instance, clMPU_CIP_Server,
                            bCIPErrorOccured, lock, clients, pc, frame, attempts>>
             /\ ret' \in {"start_ignored", "start_no_params", "run_once_false"}
             /\ OpRunOnce => ret' = "run_once_false"]_vars

\* C8 witness: start() has given up because the TO assembly size cannot be
\* read, and the manager is idle
C8_Witness ==
    /\ ret = "start_no_params"
    /\ ~Unavailable(ot_eo_assemblies) /\ to_assemblies = BadSize
    /\ ~AnyThreadAlive
    /\ start_comm_thread_instance = None

\* The positions of a thread between two attempts
BetweenAttempts ==
    {"while", "except", "sleep_exc", "after_run", "check_auto", "sleep", "check_stop2"}

\* C9: disable_auto() switches the policy off and goes through stop(), and
\* returns with the policy off and the stop flag set; while the policy is off
\* and the stop flag set no thread starts an attempt, and a thread that is
\* between attempts moves on only to leave its loop (a backoff sleep that had
\* begun ends first); enable_auto() sets the policy and changes nothing else.
C9_DisableStopsEnableOnlySets ==
    [][/\ OpDisableAuto => (~enable_auto_reconnect' /\ pc'[Op] = "stop_set")
       /\ (frame[Op].call = "disable_auto" /\ pc'[Op] = "idle")
              => (~enable_auto_reconnect' /\ stop_comm_events')
       /\ (~enable_auto_reconnect /\ stop_comm_events)
              => \A t \in Threads :
                    /\ ~StartsAttempt(t)
                    /\ (pc[t] \in BetweenAttempts /\ pc'[t] # pc[t])
                          => \/ pc'[t] = "finished"
                             \/ pc[t] = "sleep" /\ pc'[t] = "check_stop2"
                             \/ pc[t] = "sleep_exc" /\ pc'[t] = "while"
       /\ OpEnableAuto
              => /\ enable_auto_reconnect'
                 /\ UNCHANGED <<stop_comm_events, start_comm_thread_instance,
                                clMPU_CIP_Server, bCIPErrorOccured, lock, clients,
                                pc, frame, attempts>>]_vars

\* C9 witness: disable_auto() is about to return, and the thread that was
\* retrying under the policy has left its loop
C9_Witness ==
    /\ pc[Op] = "stop_finally"
    /\ frame[Op].call = "disable_auto"
    /\ ~enable_auto_reconnect /\ stop_comm_events
    /\ \E t \in Threads :
          pc[t] = "finished" /\ seen[t].auto /\ attempts[t] >= 2

\* The positions of run_once in which a Forward Open has succeeded
StreamingPcs == {"io_top", "io_wait", "io_decode", "io_send", "after_io", "ro_fc_wait"}

\* C10: forward_open is called only on a client whose session is
\* established, datagrams are received and sent only on a client whose
\* Forward Open succeeded, and run_once is in its streaming part only then.
C10_SessionThenOpenThenStream ==
    /\ \A c \in ClientIds :
          /\ clients[c].foCalls > 0 => clients[c].Sock # "none"
          /\ clients[c].foOk => clients[c].foCalls > 0
          /\ (clients[c].recvs > 0 \/ clients[c].sends > 0) => clients[c].foOk
    /\ \A p \in Procs :
          /\ pc[p] = "fo_wait" => clients[frame[p].client].Sock # "none"
          /\ pc[p] \in StreamingPcs => clients[frame[p].client].foOk

\* C10 witness: a client whose Forward Open succeeded has received and sent
C10_Witness ==
    \E c \in ClientIds :
        clients[c].foOk /\ clients[c].recvs > 0 /\ clients[c].sends > 0

\* A run_once call that is on its error path: an exception is propagating
\* or the streaming loop returned with its error flag true
OnErrorPath(p) == frame[p].exc \/ frame[p].ioErr

\* C11: a client whose run_once call ends on the error path is closed
\* without any Forward Close having been sent on it, and a client that stop()
\* closes while no error is outstanding on it and its TCP socket is open has
\* had a Forward Close sent on it.
C11_ForwardCloseIffClean ==
    [][/\ \A p \in Procs :
            (pc[p] = "finally" /\ pc'[p] # "finally" /\ OnErrorPath(p))
                => clients[frame[p].client].fcSent = 0
       /\ (/\ pc[Op] = "stop_close" /\ pc'[Op] # "stop_close"
           /\ clMPU_CIP_Server # None
           /\ clients[clMPU_CIP_Server].Sock = "open"
           /\ \A p \in Procs : frame[p].client = clMPU_CIP_Server => ~OnErrorPath(p))
                => clients[clMPU_CIP_Server].fcSent > 0]_vars

\* C12: within one connection every datagram received is answered by one
\* datagram sent before the next receive starts: at the top of a cycle and
\* during a receive as many datagrams have been sent as received, and between
\* a receive and its send exactly one more has been received than sent.
C12_OneSendPerReceive ==
    \A p \in Procs :
        LET c == frame[p].client IN
        /\ pc[p] \in {"io_top", "io_wait"} => clients[c].recvs = clients[c].sends
        /\ pc[p] \in {"io_decode", "io_send"}
              => clients[c].recvs = clients[c].sends + 1

\* C13: the step in which a receive yields no datagram raises the loop's
\* error flag and changes neither the packets, nor the datagrams sent and
\* received, nor the heartbeat and sequence counters; from there run_once
\* only stores the error flag and goes to its finally block, so that nothing
\* more is received or sent on the connection.
C13_NoDatagramEndsLoop ==
    [][LET c == frame[Op].client IN
       /\ (pc[Op] \in {"io_top", "io_wait"} /\ pc'[Op] = "after_io")
             => /\ frame'[Op].ioErr
                /\ frame'[Op].MPU_CTCMSAlive = frame[Op].MPU_CTCMSAlive
                /\ frame'[Op].CIP_AppCounter = frame[Op].CIP_AppCounter
                /\ UNCHANGED <<TO_packet, OT_packet, clients>>
       /\ (pc[Op] = "after_io" /\ pc'[Op] # "after_io")
             => /\ pc'[Op] = "finally"
                /\ bCIPErrorOccured'
                /\ UNCHANGED <<TO_packet, OT_packet, clients>>]_vars

\* C13 witness: after some full cycles a receive has timed out; the loop has
\* returned with its error flag and the TO packet still holds the last payload
C13_Witness ==
    /\ pc[Op] = "after_io"
    /\ frame[Op].ioErr
    /\ clients[frame[Op].client].sends >= 2
    /\ TO_packet \in Payloads

\* C14: the k-th O->T datagram of a connection carries the CIP sequence
\* count (65500 + k - 1) modulo 65536, a value within 0..65535 that is the
\* previous datagram's plus 1 modulo 65536, and every connection starts its
\* counter at 65500.
C14_SequenceCounts ==
    [][LET c == frame[Op].client IN
       /\ (c # None /\ clients'[c].sends = clients[c].sends + 1)
             => /\ clients'[c].sent.seq = (65500 + clients[c].sends) % 65536
                /\ clients'[c].sent.seq \in 0..65535
                /\ clients[c].sends > 0
                      => clients'[c].sent.seq = (clients[c].sent.seq + 1) % 65536
       /\ (pc[Op] = "fo_wait" /\ pc'[Op] = "io_top")
             => frame'[Op].CIP_AppCounter = 65500]_vars

\* C14 witness: the 37th datagram of a connection carries sequence count 0
C14_Witness ==
    \E c \in ClientIds : clients[c].sends = 37 /\ clients[c].sent.seq = 0

\* C15: the heartbeat counter starts at 0 with the connection, each cycle
\* that decoded its datagram advances it once, to the number of such cycles
\* modulo 256, and with MPU_CTCMSAlive declared as a byte field the k-th
\* O->T datagram carries k modulo 256.
C15_Heartbeat ==
    [][LET c == frame[Op].client IN
       /\ (pc[Op] = "fo_wait" /\ pc'[Op] = "io_top")
             => frame'[Op].MPU_CTCMSAlive = 0
       /\ (pc[Op] = "io_send" /\ pc'[Op] # "io_send")
             => /\ frame'[Op].MPU_CTCMSAlive = clients[c].recvs % 256
                /\ frame'[Op].MPU_CTCMSAlive \in 0..255
       /\ (pc[Op] # "io_send")
             => frame'[Op].MPU_CTCMSAlive = frame[Op].MPU_CTCMSAlive
                  \/ pc'[Op] \in {"io_top", "idle", "ctor"}
       /\ (c # None /\ clients'[c].sends = clients[c].sends + 1 /\ OT_packet.hb = "byte")
             => clients'[c].sent.alive = (clients[c].sends + 1) % 256]_vars

\* C15 witness: the 256th datagram of a connection carries heartbeat 0
C15_Witness ==
    /\ OT_packet.hb = "byte"
    /\ \E c \in ClientIds : clients[c].sends = 256 /\ clients[c].sent.alive = 0

\* ------------------------------------------------------------ FieldSpec
\* The field commands of the CLI and one waveform generator thread, next to
\* the background communication thread of the control-flow model, on a loaded
\* configuration.

\* hasattr(packet, field_name) and the scapy field class behind the name
FieldKindOf(packet, name) ==
    IF packet = NoPacket THEN "missing"
    ELSE CASE name = "MPU_CTCMSAlive" ->
                  (IF packet.hb = "byte" THEN "byte"
                   ELSE IF packet.hb = "other" THEN "other" ELSE "missing")
           [] name = "Real1" -> "float"
           [] name = "Uint1" -> "short"
           [] name = "Udint1" -> "other"
           [] OTHER -> "missing"

\* str.isdigit(), the hexadecimal test of lines 486-487 and 503-504, float()
\* and int() on the values of FieldValues
IsDigit(v) == v \in {"1", "300", "70000"}
IsHex(v, len) == (len = 4 /\ v = "0x12") \/ (len = 6 /\ v = "0x1234")
IsFloat(v) == v \in {"1", "300", "70000", "1.5"}
IntOf(v) ==
    CASE v = "1" -> 1 [] v = "300" -> 300 [] v = "70000" -> 70000
      [] v = "0x12" -> 18 [] v = "0x1234" -> 4660 [] OTHER -> 0

\* set_field lines 468-604: what the branch taken does with the value.
\* "set": setattr was called; "rejected", "unsupported", "not_found": only a
\* message is printed; "raise": an exception leaves the method.  The ShortField
\* branch at line 506 calls int() on the two bytes of the value, which raises
\* ValueError outside any try; float() raising ValueError is caught (477).
SetFieldOutcome(kind, v) ==
    CASE kind = "missing" -> "not_found"
      [] kind = "float" -> (IF IsFloat(v) THEN "set" ELSE "rejected")
      [] kind = "byte" ->
             (IF IsHex(v, 4) THEN "set"
              ELSE IF IsDigit(v) /\ IntOf(v) \in 0..255 THEN "set" ELSE "rejected")
      [] kind = "short" ->
             (IF IsHex(v, 6) THEN "raise"
              ELSE IF IsDigit(v) /\ IntOf(v) \in 0..65535 THEN "set" ELSE "rejected")
      [] OTHER -> "unsupported"

\* setattr(packet, field_name, value) as far as the packet is modelled
SetAttr(packet, name, v) ==
    IF name = "MPU_CTCMSAlive" THEN [packet EXCEPT !.MPU_CTCMSAlive = v] ELSE packet

\* stop_wave, waveforms.py lines 147-151 (Real1 is the field that is waved)
stop_wave(name) ==
    IF name = "Real1" /\ stop_events = "clear" THEN "set" ELSE stop_events

\* What a field command leaves alone
commState == <<mgrVars, ot_eo_assemblies, to_assemblies, thrVars, clMPU_CIP_Server,
               bCIPErrorOccured, clients, frame, TO_packet, pkgCIP_IO, layoutVars, codecVars, service, objVars>>

\* A field command starts (set_field 464-466, clear_field 609-611, get_field
\* 625-629): the waveform of the field is stopped first, except by get_field
BeginFieldCmd(next, stopsWave) ==
    /\ pc[Op] = "idle"
    /\ \E name \in FieldNames, value \in (IF next = "sf_acquire" THEN FieldValues ELSE {"none"}) :
          /\ field_cmd' = [name |-> name, value |-> value]
          /\ stop_events' = IF stopsWave THEN stop_wave(name) ELSE stop_events
    /\ pc' = [pc EXCEPT ![Op] = next]
    /\ ret' = "none"
    /\ UNCHANGED <<commState, lock, OT_packet, wave_pc>>

OpSetField == BeginFieldCmd("sf_acquire", TRUE)
OpClearField == BeginFieldCmd("cf_body", TRUE)
OpGetField == BeginFieldCmd("gf_body", FALSE)

\* set_field line 467
SetFieldAcquire ==
    /\ pc[Op] = "sf_acquire"
    /\ lock = FreeLock
    /\ lock' = Op
    /\ pc' = [pc EXCEPT ![Op] = "sf_body"]
    /\ UNCHANGED <<commState, ret, OT_packet, cliVars>>

\* set_field lines 468-604; an exception leaves the method before line 606
SetFieldBody ==
    /\ pc[Op] = "sf_body"
    /\ LET outcome == SetFieldOutcome(FieldKindOf(OT_packet, field_cmd.name), field_cmd.value)
       IN /\ OT_packet' = IF outcome = "set"
                          THEN SetAttr(OT_packet, field_cmd.name, IntOf(field_cmd.value))
                          ELSE OT_packet
          /\ pc' = [pc EXCEPT ![Op] = IF outcome = "raise" THEN "idle" ELSE "sf_release"]
          /\ ret' = IF outcome = "raise" THEN "set_field_raised" ELSE ret
          /\ field_cmd' = IF outcome = "raise" THEN NoCmd ELSE field_cmd
    /\ UNCHANGED <<commState, lock, wave_pc, stop_events>>

\* set_field line 606
SetFieldRelease ==
    /\ pc[Op] = "sf_release"
    /\ lock' = FreeLock
    /\ pc' = [pc EXCEPT ![Op] = "idle"]
    /\ field_cmd' = NoCmd
    /\ UNCHANGED <<commState, ret, OT_packet, wave_pc, stop_events>>

\* clear_field lines 612-623
ClearFieldBody ==
    /\ pc[Op] = "cf_body"
    /\ OT_packet' = IF FieldKindOf(OT_packet, field_cmd.name) \in {"float", "byte"}
                    THEN SetAttr(OT_packet, field_cmd.name, 0)
                    ELSE OT_packet
    /\ pc' = [pc EXCEPT ![Op] = "idle"]
    /\ field_cmd' = NoCmd
    /\ UNCHANGED <<commState, lock, ret, wave_pc, stop_events>>

\* get_field lines 631-645: the field is read from the OT packet, else from
\* the TO packet
GetFieldBody ==
    /\ pc[Op] = "gf_body"
    /\ pc' = [pc EXCEPT ![Op] = "idle"]
    /\ field_cmd' = NoCmd
    /\ UNCHANGED <<commState, lock, ret, OT_packet, wave_pc, stop_events>>

\* wave_field, waveforms.py lines 28-63: the class of the OT packet is asked
\* for the field (AttributeError when it has none); for a REAL a new stop
\* event is stored and the generator thread started.  One generator thread
\* is followed: a waveform is started while none is running.
OpWaveField ==
    /\ pc[Op] = "idle"
    /\ \E name \in FieldNames :
          LET kind == FieldKindOf(OT_packet, name) IN
          /\ kind = "float" => wave_pc \in {"none", "done"}
          /\ stop_events' = IF kind = "float" THEN "clear" ELSE stop_wave(name)
          /\ wave_pc' = IF kind = "float" THEN "loop" ELSE wave_pc
          /\ ret' = IF kind = "missing" THEN "wave_field_raised" ELSE "none"
    /\ UNCHANGED <<commState, lock, pc, OT_packet, field_cmd>>

\* wave_thread line 42 and lines 43-50
WaveLoopTest ==
    /\ wave_pc = "loop"
    /\ wave_pc' = IF stop_events = "set" THEN "done" ELSE "acquire"
    /\ UNCHANGED <<commState, lock, pc, ret, OT_packet, field_cmd, stop_events>>

\* wave_thread line 51: with self.lock
WaveAcquire ==
    /\ wave_pc = "acquire"
    /\ lock = FreeLock
    /\ lock' = Wave
    /\ wave_pc' = "set"
    /\ UNCHANGED <<commState, pc, ret, OT_packet, field_cmd, stop_events>>

\* wave_thread lines 52-54: setattr, the with block ends, sleep
WaveSet ==
    /\ wave_pc = "set"
    /\ OT_packet' = SetAttr(OT_packet, "Real1", 0)
    /\ lock' = FreeLock
    /\ wave_pc' = "loop"
    /\ UNCHANGED <<commState, pc, ret, field_cmd, stop_events>>

FieldInit ==
    /\ enable_auto_reconnect \in BOOLEAN
    /\ stop_comm_events = FALSE
    /\ start_comm_thread_instance = None
    /\ clMPU_CIP_Server = None
    /\ bCIPErrorOccured = FALSE
    /\ lock = FreeLock
    /\ ot_eo_assemblies \in AsmSizes
    /\ to_assemblies \in AsmSizes
    /\ clients = [c \in ClientIds |-> NoClient]
    /\ pc = [p \in Procs |-> IF p = Op THEN "idle" ELSE "unborn"]
    /\ frame = [p \in Procs |-> NoFrame]
    /\ attempts = [t \in Threads |-> 0]
    /\ seen = [t \in Threads |-> NoSeen]
    /\ ret = "none"
    /\ TO_packet = FreshPayload
    /\ OT_packet = FreshPacket("byte")
    /\ pkgCIP_IO = NoPayload
    /\ field_cmd = NoCmd
    /\ wave_pc = "none"
    /\ stop_events = "absent"
    /\ schema = NoSchema
    /\ layout = NoLayout
    /\ codec_packet = DefaultPacket
    /\ mut = NoMut
    /\ service = NoService
    /\ cip_client = NoCip
    /\ cip_call = NoCall
    /\ cli_wave = NoCliWave
    /\ waveform_manager = NoManager
    /\ generators = [g \in Generators |-> NoGenerator]

FieldNext ==
    \/ OpStart
    \/ \E t \in Threads : ThreadStep(t)
    \/ \E t \in Threads : RunOnceLocal(t)
    \/ \E t \in Threads : ClientConstruct(t)
    \/ \E t \in Threads : ForwardOpenReply(t)
    \/ \E t \in Threads : IoRecvReturn(t)
    \/ OpSetField
    \/ SetFieldAcquire
    \/ SetFieldBody
    \/ SetFieldRelease
    \/ OpClearField
    \/ ClearFieldBody
    \/ OpGetField
    \/ GetFieldBody
    \/ OpWaveField
    \/ WaveLoopTest
    \/ WaveAcquire
    \/ WaveSet

FieldSpec == FieldInit /\ [][FieldNext]_vars

\* A step in which the process touches a packet instance
OpAccess == pc[Op] \in {"sf_body", "cf_body", "gf_body"} /\ pc'[Op] # pc[Op]
WaveAccess == wave_pc = "set" /\ wave_pc' # "set"

\* C17: every step in which a field command or the waveform generator
\* thread touches a packet instance is taken by the holder of the lock.
C17_FieldAccessUnderLock ==
    [][/\ OpAccess => lock = Op
       /\ WaveAccess => lock = Wave]_vars

\* C18: whenever no field command is running, the operator does not hold the
\* lock: set_field has released it however the command ended.
C18_SetFieldReleasesLock ==
    pc[Op] = "idle" => lock # Op

\* ------------------------------------------------------------ LayoutSpec
\* The layout compiler, config.py create_packet_class / create_packet_dict /
\* sorted_fields, as the function it is.  A compiled field is a record
\* [id, offset, type, length]; the id of a declared field is
\* [kind |-> "field", a |-> its position, b |-> 0], spare_bit_<a>_<b> and
\* spare_byte_<a> are [kind |-> "spare_bit", a, b] and [kind |-> "spare_byte", a, b |-> 0].

\* cip_data_type_size.get(field_type, 1), lines 223-234 and 305
cip_data_type_size(type) ==
    CASE type \in {"usint", "string", "sint"} -> 1
      [] type \in {"uint", "int"} -> 2
      [] type \in {"udint", "real", "dint"} -> 4
      [] type \in {"lreal", "lint"} -> 8
      [] OTHER -> 1

\* list.sort / sorted with key offset (lines 236, 365): stable
RECURSIVE SortByOffset(_)
SortByOffset(fs) ==
    IF fs = <<>> THEN <<>>
    ELSE LET front == SortByOffset(SubSeq(fs, 1, Len(fs) - 1))
             f == fs[Len(fs)]
             before == SelectSeq(front, LAMBDA g : g.offset <= f.offset)
             after == SelectSeq(front, LAMBDA g : g.offset > f.offset)
         IN before \o <<f>> \o after

\* The byte indices a key of signals can have
ByteIndices == 0..MaxLayoutBytes

\* Lines 286-295, 311-320 and 338-347: the pending run of spare bytes is
\* appended to the list of the byte it started at
FlushPad(st) ==
    IF st.temp_pad_len > 0
    THEN [st EXCEPT !.signals[st.temp_pad_index] =
                        Append(@, [id |-> [kind |-> "spare_byte", a |-> st.temp_pad_index, b |-> 0],
                                   offset |-> st.temp_pad_index * 8,
                                   type |-> "string", length |-> st.temp_pad_len]),
                    !.temp_pad_len = 0, !.temp_pad_index = 0]
    ELSE st

\* One iteration of the loop of lines 265-336 at byte_index
ScanByte(sorted_dict, st, byte_index) ==
    IF st.len_counter # 0
    THEN [st EXCEPT !.len_counter = @ - 1]
    ELSE LET pack == st.signals[byte_index] IN
         IF pack = <<>>
         THEN LET found == SelectSeq(sorted_dict,
                              LAMBDA f : f.offset = byte_index * 8 /\ f.type # "bool")
              IN IF found # <<>>
                 THEN LET fl == FlushPad(st)
                          f == Head(found)
                      IN [fl EXCEPT !.signals[byte_index] =
                                        Append(@, [f EXCEPT !.offset = byte_index * 8]),
                                    !.len_counter =
                                        f.length * cip_data_type_size(f.type) - 1]
                 ELSE [st EXCEPT !.len_counter = 0,
                                 !.temp_pad_index =
                                     IF st.temp_pad_len = 0 THEN byte_index ELSE @,
                                 !.temp_pad_len = @ + 1]
         ELSE LET fl == FlushPad(st)
                  occupied_offsets == {pack[k].offset % 8 : k \in 1..Len(pack)}
                  spare(bit_index) ==
                      IF bit_index \in occupied_offsets THEN <<>>
                      ELSE <<[id |-> [kind |-> "spare_bit", a |-> byte_index, b |-> bit_index],
                              offset |-> byte_index * 8 + bit_index,
                              type |-> "bool", length |-> 1]>>
              IN [fl EXCEPT !.signals[byte_index] =
                      SortByOffset(@ \o spare(0) \o spare(1) \o spare(2) \o spare(3)
                                     \o spare(4) \o spare(5) \o spare(6) \o spare(7))]

\* The loop of lines 265-336 from byte_index on
RECURSIVE Scan(_, _, _, _)
Scan(sorted_dict, st, byte_index, count) ==
    IF byte_index >= count THEN st
    ELSE Scan(sorted_dict, ScanByte(sorted_dict, st, byte_index), byte_index + 1, count)

\* create_packet_dict, lines 218-349: signals, as the list of each byte index
create_packet_dict(fields_dict, assembly_size) ==
    LET sorted_dict == SortByOffset(fields_dict)
        bools(byte_index) ==
            SelectSeq(sorted_dict,
                      LAMBDA f : f.type = "bool" /\ f.offset \div 8 = byte_index)
        st == [signals |-> [byte_index \in ByteIndices |->
                               [k \in 1..Len(bools(byte_index)) |->
                                   [bools(byte_index)[k] EXCEPT !.length = 1]]],
               len_counter |-> 0, temp_pad_index |-> 0, temp_pad_len |-> 0]
    IN FlushPad(Scan(sorted_dict, st, 0, assembly_size \div 8)).signals

\* sorted_fields, lines 351-366
RECURSIVE Flatten(_, _)
Flatten(packet, byte_index) ==
    IF byte_index \notin DOMAIN packet THEN <<>>
    ELSE packet[byte_index] \o Flatten(packet, byte_index + 1)
sorted_fields(packet) == SortByOffset(Flatten(packet, 0))

\* create_packet_class lines 397-410: the scapy field class for a type, None
\* for a type no branch names
scapy_class(field_type) ==
    CASE field_type = "usint" -> "ByteField"
      [] field_type = "bool" -> "BitField"
      [] field_type = "real" -> "IEEEFloatField"
      [] field_type = "string" -> "StrFixedLenField"
      [] field_type = "udint" -> "LEIntField"
      [] field_type = "uint" -> "ShortField"
      [] field_type = "sint" -> "SignedByteField"
      [] OTHER -> "None"

\* The loop of lines 392-410: one descriptor for each compiled field whose
\* type has a branch, in layout order
field_desc(sorted_field) ==
    LET described == SelectSeq(sorted_field, LAMBDA f : scapy_class(f.type) # "None")
    IN [k \in 1..Len(described) |->
           [name |-> described[k].id, cls |-> scapy_class(described[k].type),
            length |-> described[k].length]]

\* create_packet_class, lines 368-421: the fields are read with their ids,
\* compiled and sorted, and the packet class gets its descriptors; no size
\* and no field is refused
create_packet_class(assembly_element) ==
    LET fields_dict ==
            [i \in 1..Len(assembly_element.fields) |->
                [id |-> [kind |-> "field", a |-> i, b |-> 0],
                 offset |-> assembly_element.fields[i].offset,
                 type |-> assembly_element.fields[i].type,
                 length |-> assembly_element.fields[i].length]]
        sorted_field == sorted_fields(
                            create_packet_dict(fields_dict, assembly_element.total_bits))
    IN [error |-> "none", fields |-> sorted_field, field_desc |-> field_desc(sorted_field)]

\* The compiler is run once on the schema
OpCompile ==
    /\ layout = NoLayout
    /\ layout' = create_packet_class(schema)
    /\ UNCHANGED <<mgrVars, ot_eo_assemblies, to_assemblies, dataVars, cliVars, thrVars,
                   clMPU_CIP_Server, bCIPErrorOccured, lock, clients, pc, frame, ret, schema,
                   codecVars, service, objVars>>

LayoutInit ==
    /\ enable_auto_reconnect = FALSE
    /\ stop_comm_events = FALSE
    /\ start_comm_thread_instance = None
    /\ clMPU_CIP_Server = None
    /\ bCIPErrorOccured = FALSE
    /\ lock = FreeLock
    /\ ot_eo_assemblies = NoAsm
    /\ to_assemblies = NoAsm
    /\ clients = [c \in ClientIds |-> NoClient]
    /\ pc = [p \in Procs |-> IF p = Op THEN "idle" ELSE "unborn"]
    /\ frame = [p \in Procs |-> NoFrame]
    /\ attempts = [t \in Threads |-> 0]
    /\ seen = [t \in Threads |-> NoSeen]
    /\ ret = "none"
    /\ TO_packet = NoPayload
    /\ OT_packet = NoPacket
    /\ pkgCIP_IO = NoPayload
    /\ field_cmd = NoCmd
    /\ wave_pc = "none"
    /\ stop_events = "absent"
    /\ schema \in Schemas
    /\ layout = NoLayout
    /\ codec_packet = DefaultPacket
    /\ mut = NoMut
    /\ service = NoService
    /\ cip_client = NoCip
    /\ cip_call = NoCall
    /\ cli_wave = NoCliWave
    /\ waveform_manager = NoManager
    /\ generators = [g \in Generators |-> NoGenerator]

LayoutNext == OpCompile

LayoutSpec == LayoutInit /\ [][LayoutNext]_vars

\* The bits of a field: 1 for a BOOL, length times the size of the type
\* otherwise
FieldBits(f) == IF f.type = "bool" THEN 1 ELSE 8 * f.length * cip_data_type_size(f.type)
BitsOf(f) == f.offset..(f.offset + FieldBits(f) - 1)
RECURSIVE SumBits(_)
SumBits(fs) == IF fs = <<>> THEN 0 ELSE FieldBits(Head(fs)) + SumBits(Tail(fs))

\* A valid schema: the size is whole bytes, every declared field lies inside
\* it and no two declared fields share a bit (ids are unique by construction)
ValidSchema(sc) ==
    /\ sc.total_bits % 8 = 0
    /\ \A i \in 1..Len(sc.fields) : BitsOf(sc.fields[i]) \subseteq 0..(sc.total_bits - 1)
    /\ \A i, j \in 1..Len(sc.fields) :
          i # j => BitsOf(sc.fields[i]) \cap BitsOf(sc.fields[j]) = {}

\* C19: the fields compiled from a valid schema partition 0..total_bits-1:
\* their sizes sum to total_bits, every bit belongs to exactly one of them,
\* and a byte that holds a BOOL is made of eight one-bit fields.
C19_LayoutPartitionsBits ==
    (layout # NoLayout /\ ValidSchema(schema))
       => LET fs == layout.fields IN
          /\ layout.error = "none"
          /\ SumBits(fs) = schema.total_bits
          /\ \A bit \in 0..(schema.total_bits - 1) :
                Cardinality({k \in 1..Len(fs) : bit \in BitsOf(fs[k])}) = 1
          /\ \A k \in 1..Len(fs) :
                fs[k].type = "bool"
                   => \A bit \in (8 * (fs[k].offset \div 8))..(8 * (fs[k].offset \div 8) + 7) :
                         \E m \in 1..Len(fs) : fs[m].type = "bool" /\ fs[m].offset = bit

\* C20: a size that is not a multiple of 8 bits is refused as MisalignedSize
\* and a declared field that reaches past the size as FieldOverrun; no
\* layout is returned for either.
C20_RefusesWhatDoesNotFit ==
    layout # NoLayout
       => /\ schema.total_bits % 8 # 0
                => (layout.error = "MisalignedSize" /\ layout.fields = <<>>)
          /\ (/\ schema.total_bits % 8 = 0
              /\ \E i \in 1..Len(schema.fields) :
                    ~(BitsOf(schema.fields[i]) \subseteq 0..(schema.total_bits - 1)))
                => (layout.error = "FieldOverrun" /\ layout.fields = <<>>)

\* ------------------------------------------------ connection parameters
\* An attempt run by the operator on a configuration whose two assemblies
\* have any of the sizes of ParamSizes; the cyclic exchange is the bounded one
\* of the control-flow model.
ParamInit ==
    /\ enable_auto_reconnect = FALSE
    /\ stop_comm_events = FALSE
    /\ start_comm_thread_instance = None
    /\ clMPU_CIP_Server = None
    /\ bCIPErrorOccured = FALSE
    /\ lock = FreeLock
    /\ ot_eo_assemblies \in ParamSizes
    /\ to_assemblies \in ParamSizes
    /\ clients = [c \in ClientIds |-> NoClient]
    /\ pc = [p \in Procs |-> IF p = Op THEN "idle" ELSE "unborn"]
    /\ frame = [p \in Procs |-> NoFrame]
    /\ attempts = [t \in Threads |-> 0]
    /\ seen = [t \in Threads |-> NoSeen]
    /\ ret = "none"
    /\ TO_packet = NoPayload
    /\ OT_packet = NoPacket
    /\ pkgCIP_IO = NoPayload
    /\ field_cmd = NoCmd
    /\ wave_pc = "none"
    /\ stop_events = "absent"
    /\ schema = NoSchema
    /\ layout = NoLayout
    /\ codec_packet = DefaultPacket
    /\ mut = NoMut
    /\ service = NoService
    /\ cip_client = NoCip
    /\ cip_call = NoCall
    /\ cli_wave = NoCliWave
    /\ waveform_manager = NoManager
    /\ generators = [g \in Generators |-> NoGenerator]

ParamNext ==
    \/ OpRunOnce
    \/ ClientConstruct(Op)
    \/ SessionCheck(Op)
    \/ ForwardOpenSend(Op)
    \/ ForwardOpenReply(Op)
    \/ IoRecvCall(Op)
    \/ IoRecvReturn(Op)
    \/ IoDecode(Op)
    \/ IoSend(Op)
    \/ RunOnceAfterIo(Op)
    \/ RunOnceFinally(Op)

ParamSpec == ParamInit /\ [][ParamNext]_vars

\* C16: the attempt and its client are given ot_param = 0x4800 | (OT bits
\* div 8 + 6) and to_param = 0x2800 | (TO bits div 8 + 6); 0x4800 = 18432 and
\* 0x2800 = 10240 have their low 11 bits clear, so for these sizes the OR is
\* the sum; 128 bits give 0x4816 = 18454 and 0x2816 = 10262.
C16_ConnectionParams ==
    /\ pc[Op] # "idle"
          => /\ frame[Op].ot_param = 18432 + ((ot_eo_assemblies \div 8) + 6)
             /\ frame[Op].to_param = 10240 + ((to_assemblies \div 8) + 6)
             /\ ot_eo_assemblies = 128 => frame[Op].ot_param = 18454
             /\ to_assemblies = 128 => frame[Op].to_param = 10262
    /\ \A c \in ClientIds :
          clients[c].state \notin {"unborn", "init"}
             => /\ clients[c].ot_connection_param = 18432 + ((ot_eo_assemblies \div 8) + 6)
                /\ clients[c].to_connection_param = 10240 + ((to_assemblies \div 8) + 6)

\* C16 witness: a Forward Open was sent for two assemblies of 128 bits
C16_Witness ==
    /\ ot_eo_assemblies = 128 /\ to_assemblies = 128
    /\ \E c \in ClientIds :
          /\ clients[c].foCalls > 0
          /\ clients[c].ot_connection_param = 18454
          /\ clients[c].to_connection_param = 10262

\* C26: the step that ends run_once, its finally block, has called close()
\* on the attempt's client and leaves the manager's current-client reference
\* None, whichever way the attempt went.
C26_ClientClosedAndCleared ==
    [][\A p \in Procs :
          (pc[p] = "finally" /\ pc'[p] # "finally") => clMPU_CIP_Server' = None]_vars

\* C27: when a background thread leaves the cyclic loop, by return or by an
\* exception of the decode or of the send, it does not hold the lock.
C27_LoopExitReleasesLock ==
    [][\A t \in Threads :
          (/\ pc[t] \in {"io_top", "io_wait", "io_decode", "io_send"}
           /\ pc'[t] \notin {"io_top", "io_wait", "io_decode", "io_send"})
             => lock' # t]_vars

\* C28: on the TCP session of a client at most one request awaits its reply:
\* a Forward Close of stop() is never outstanding together with the Forward
\* Open (or Forward Close) of the attempt that owns the client.
C28_OneRequestOutstanding ==
    \A c \in ClientIds :
       Cardinality({p \in Procs : /\ frame[p].client = c
                                  /\ pc[p] \in {"fo_wait", "stop_fc_wait", "ro_fc_wait"}}) <= 1

\* ------------------------------------------------------------ ReloadSpec
\* A configuration of two 64-bit assemblies is loaded; the operator starts
\* the communication, enables auto-reconnect and loads configurations while
\* the background threads run.
ReloadNext ==
    \/ OpStart
    \/ OpLoadConfig
    \/ OpEnableAuto
    \/ \E t \in Threads : ThreadStep(t)
    \/ \E t \in Threads : RunOnceLocal(t)
    \/ \E t \in Threads : ClientConstruct(t)
    \/ \E t \in Threads : ForwardOpenReply(t)
    \/ \E t \in Threads : IoRecvReturn(t)

\* A configuration of two 64-bit assemblies is loaded, nothing runs
ReloadInit == ParamInit /\ ot_eo_assemblies = 64 /\ to_assemblies = 64
ReloadSpec == ReloadInit /\ [][ReloadNext]_vars

\* C29: every attempt a background thread starts while a configuration with
\* readable sizes is loaded is given the connection parameters of that
\* configuration.
C29_AttemptUsesLoadedConfig ==
    [][\A t \in Threads :
          (StartsAttempt(t) /\ OtSize # None /\ ToSize # None)
             => /\ frame'[t].ot_param = calculate_connection_params[1]
                /\ frame'[t].to_param = calculate_connection_params[2]]_vars

\* C30: at most one background communication thread is alive.
C30_OneThreadAlive ==
    Cardinality({t \in Threads : is_alive(t)}) <= 1

\* C30 witness: stop() has returned while the thread it could not join is
\* still alive, and a start() called after it was ignored
C30_Witness ==
    /\ pc[Op] = "idle"
    /\ ret = "start_ignored"
    /\ stop_comm_events
    /\ \E t \in Threads : is_alive(t) /\ start_comm_thread_instance = t /\ attempts[t] >= 1


\* ======================================================================
\* fields.py: FieldMutator and FieldFormatter on one packet (CodecSpec)
\* ======================================================================
\* Character codes of the texts used below.
Ord ==
    ("0" :> 48) @@ ("1" :> 49) @@ ("2" :> 50) @@ ("3" :> 51) @@ ("4" :> 52) @@
    ("5" :> 53) @@ ("6" :> 54) @@ (" " :> 32) @@ ("-" :> 45) @@ ("X" :> 88) @@
    ("F" :> 70) @@ ("a" :> 97) @@ ("b" :> 98) @@ ("c" :> 99) @@ ("f" :> 102) @@
    ("x" :> 120)
\* str.encode() of an ASCII text
Encode(s) == [i \in 1..Len(s) |-> Ord[s[i]]]
Text(s) == StrV(Encode(s))

\* The single-precision patterns used as float inputs (memory order): 1.0,
\* 1.5, 1.003921389579773 (0x3F80807F), inf and nan.
F_ONE == <<0, 0, 128, 63>>
F_ONE_AND_HALF == <<0, 0, 192, 63>>
F_LOW_BYTE_7F == <<127, 128, 128, 63>>
F_INF == <<0, 0, 128, 127>>
F_NAN == <<0, 0, 192, 127>>

\* The raw values handed to set_value.
RawValues ==
    {Text(<<"0">>), Text(<<"1">>), Text(<<"2">>), Text(<<"2", "5", "5">>),
     Text(<<"2", "5", "6">>), Text(<<"0", "x", "f", "f">>), Text(<<"0", "X", "F", "F">>),
     Text(<<"0", "x", "1", "2", "3", "4">>), Text(<<"6", "5", "5", "3", "6">>),
     Text(<<"-", "1">>), Text(<<" ", "1", " ">>), Text(<<"a", "b", "c">>),
     Text(<<"a", "b", "c", "a", "b">>), Text(<<>>),
     IntV(1), IntV(300),
     FloatV(F_ONE), FloatV(F_ONE_AND_HALF), FloatV(F_LOW_BYTE_7F), FloatV(F_INF),
     FloatV(F_NAN), BytesV(Encode(<<"a", "b", "c">>)), NoneV}

Reverse(s) == [i \in 1..Len(s) |-> s[Len(s) + 1 - i]]
RECURSIVE Pow(_, _)
Pow(b, e) == IF e = 0 THEN 1 ELSE b * Pow(b, e - 1)
\* int.to_bytes(length, "big") and int.from_bytes(..., "big")
RECURSIVE to_bytes(_, _)
to_bytes(n, length) ==
    IF length = 0 THEN <<>> ELSE Append(to_bytes(n \div 256, length - 1), n % 256)
RECURSIVE from_bytes(_)
from_bytes(b) ==
    IF b = <<>> THEN 0 ELSE 256 * from_bytes(SubSeq(b, 1, Len(b) - 1)) + b[Len(b)]
\* lines 41-44
_reverse_bytes(value, length) == from_bytes(Reverse(to_bytes(value, length)))

\* The fields of a single-precision pattern.
Exponent(b) == (b[4] % 128) * 2 + b[3] \div 128
Mantissa(b) == (b[3] % 128) * 65536 + b[2] * 256 + b[1]
IsNaN(b) == Exponent(b) = 255 /\ Mantissa(b) # 0
\* struct.unpack("f", ...) widens the pattern to a Python float: a
\* signalling NaN comes out quiet (bit 22 of the mantissa set).
Quiet(b) == IF IsNaN(b) /\ (b[3] \div 64) % 2 = 0 THEN [b EXCEPT ![3] = b[3] + 64] ELSE b
\* lines 47-50: pack as single precision, reverse the bytes, unpack
_float_to_big_endian(b) == Quiet(Reverse(b))

\* float(n) of an integer below 2^24 in magnitude, as a pattern
RECURSIVE Log2(_)
Log2(n) == IF n < 2 THEN 0 ELSE 1 + Log2(n \div 2)
Float32Of(n) ==
    LET a == IF n < 0 THEN -n ELSE n
        e == Log2(a)
        ex == 127 + e
        m == (a - Pow(2, e)) * Pow(2, 23 - e)
    IN IF a = 0 THEN <<0, 0, 0, 0>>
       ELSE <<m % 256, (m \div 256) % 256, (ex % 2) * 128 + m \div 65536,
              (IF n < 0 THEN 128 ELSE 0) + ex \div 2>>
\* int(x) of a float: truncation; infinity and NaN raise
IntOfFloat(b) ==
    LET e == Exponent(b) - 127
        sig == 8388608 + Mantissa(b)
        mag == IF e < 0 THEN 0
               ELSE IF e <= 23 THEN sig \div Pow(2, 23 - e) ELSE sig * Pow(2, e - 23)
    IN IF Exponent(b) = 255
       THEN [exc |-> IF Mantissa(b) = 0 THEN "OverflowError" ELSE "ValueError", n |-> 0]
       ELSE [exc |-> "none", n |-> IF b[4] >= 128 THEN -mag ELSE mag]

\* str.strip() and str.lower()
RECURSIVE lstrip(_)
lstrip(s) == IF s # <<>> /\ Head(s) = 32 THEN lstrip(Tail(s)) ELSE s
strip(s) == Reverse(lstrip(Reverse(lstrip(s))))
lower(s) == [i \in 1..Len(s) |-> IF s[i] \in 65..90 THEN s[i] + 32 ELSE s[i]]
startswith_0x(s) == Len(s) >= 2 /\ s[1] = 48 /\ s[2] = 120
\* int(text, base): an optional sign, for base 16 an optional 0x, then
\* digits; anything else is a ValueError
DigitOf(c) == IF c \in 48..57 THEN c - 48 ELSE IF c \in 97..102 THEN c - 87 ELSE 99
RECURSIVE Digits(_, _)
Digits(s, base) ==
    IF s = <<>> THEN 0 ELSE base * Digits(SubSeq(s, 1, Len(s) - 1), base) + DigitOf(s[Len(s)])
int_text(text, base) ==
    LET s == strip(text)
        neg == s # <<>> /\ s[1] = 45
        u == IF neg THEN Tail(s) ELSE s
        d == IF base = 16 /\ startswith_0x(lower(u)) THEN lower(Tail(Tail(u))) ELSE lower(u)
    IN IF d = <<>> \/ \E i \in 1..Len(d) : DigitOf(d[i]) >= base
       THEN [exc |-> "ValueError", n |-> 0]
       ELSE [exc |-> "none", n |-> IF neg THEN -Digits(d, base) ELSE Digits(d, base)]

\* lines 53-69
_parse_int(value) ==
    CASE value.t = "int" -> [exc |-> "none", n |-> value.n]
      [] value.t = "float" -> IntOfFloat(value.b)
      [] value.t = "str" ->
            LET stripped == lower(strip(value.b))
                p == IF startswith_0x(stripped) THEN int_text(stripped, 16)
                     ELSE int_text(stripped, 10)
            IN IF p.exc = "none" THEN p ELSE [exc |-> "FieldMutationError", n |-> 0]
      [] OTHER -> [exc |-> "FieldMutationError", n |-> 0]

\* float(raw_value) as _set_float calls it, lines 114-117: the texts used
\* here are integer literals or not numbers at all
float_of(raw) ==
    CASE raw.t = "int" -> [exc |-> "none", b |-> Float32Of(raw.n)]
      [] raw.t = "float" -> [exc |-> "none", b |-> raw.b]
      [] raw.t \in {"str", "bytes"} ->
            LET p == int_text(raw.b, 10)
            IN IF p.exc = "none" THEN [exc |-> "none", b |-> Float32Of(p.n)]
               ELSE [exc |-> "FieldMutationError", b |-> <<0, 0, 0, 0>>]
      [] OTHER -> [exc |-> "FieldMutationError", b |-> <<0, 0, 0, 0>>]

Rejected(exc) == [exc |-> exc, store |-> NoneV, result |-> NoneV]
Stored(value, result) == [exc |-> "none", store |-> value, result |-> result]

\* lines 72-77 applied to what _parse_int gave
_ensure_range(p, minimum, maximum) ==
    IF p.exc = "none" /\ ~(minimum <= p.n /\ p.n <= maximum)
    THEN [exc |-> "FieldMutationError", n |-> 0] ELSE p

\* lines 113-121
_set_float(raw) ==
    LET f == float_of(raw)
    IN IF f.exc # "none" THEN Rejected(f.exc)
       ELSE Stored(FloatV(_float_to_big_endian(f.b)), FloatV(f.b))
\* lines 129-139: 0, 1 (0.0 and 1.0 are equal to them), "0" or "1"
_set_bit(raw) ==
    CASE raw.t = "int" /\ raw.n \in {0, 1} -> Stored(IntV(raw.n), IntV(raw.n))
      [] raw.t = "float" /\ raw.b \in {Float32Of(0), Float32Of(1)} ->
            Stored(IntV(IntOfFloat(raw.b).n), IntV(IntOfFloat(raw.b).n))
      [] raw.t = "str" /\ raw.b \in {<<48>>, <<49>>} ->
            Stored(IntV(raw.b[1] - 48), IntV(raw.b[1] - 48))
      [] OTHER -> Rejected("FieldMutationError")
\* lines 147-151
_set_byte(raw) ==
    LET p == _ensure_range(_parse_int(raw), 0, 255)
    IN IF p.exc # "none" THEN Rejected(p.exc) ELSE Stored(IntV(p.n), IntV(p.n))
\* lines 154-159
_set_short(raw) ==
    LET p == _ensure_range(_parse_int(raw), 0, 65535)
    IN IF p.exc # "none" THEN Rejected(p.exc)
       ELSE Stored(IntV(_reverse_bytes(p.n, 2)), IntV(p.n))
\* lines 162-171: a hexadecimal text is stored as two bytes
_set_le_short(raw) ==
    LET p == _ensure_range(_parse_int(raw), 0, 65535)
    IN IF p.exc # "none" THEN Rejected(p.exc)
       ELSE IF raw.t = "str" /\ startswith_0x(lower(strip(raw.b)))
            THEN Stored(BytesV(to_bytes(p.n, 2)), IntV(p.n))
            ELSE Stored(IntV(p.n), IntV(p.n))
\* lines 174-179 (the inputs here are far below 2**64)
_set_double(raw) ==
    LET p == _parse_int(raw)
    IN IF p.exc # "none" THEN Rejected(p.exc)
       ELSE IF p.n < 0 THEN Rejected("FieldMutationError")
       ELSE Stored(FloatV(Float32Of(p.n)), FloatV(Float32Of(p.n)))
\* lines 80-96 and 187-190
_set_fixed_string(raw) ==
    IF raw.t \notin {"bytes", "str"} \/ Len(raw.b) > TEXT_LENGTH
    THEN Rejected("FieldMutationError")
    ELSE Stored(BytesV(raw.b), BytesV(raw.b))

\* DEFAULT_FIELD_STRATEGIES, lines 193-238: the field classes in the order of
\* the table, and which of setter, clearer and formatter each entry has.
\* _lookup_strategy takes the first entry the field is an instance of, and
\* a StrFixedLenField is an instance of StrField.
STRATEGY_ORDER ==
    <<"IEEEFloatField", "BitField", "ByteField", "ShortField", "LEShortField",
      "IntField", "LongField", "StrField", "StrFixedLenField", "IEEEDoubleField">>
isinstance(cls, type) == cls = type \/ (cls = "StrFixedLenField" /\ type = "StrField")
_lookup_strategy(cls) ==
    LET hits == {i \in 1..Len(STRATEGY_ORDER) : isinstance(cls, STRATEGY_ORDER[i])}
    IN IF hits = {} THEN "none"
       ELSE STRATEGY_ORDER[CHOOSE i \in hits : \A j \in hits : i <= j]
HasSetter(strategy) ==
    strategy \in {"IEEEFloatField", "BitField", "ByteField", "ShortField", "LEShortField",
                  "StrFixedLenField", "IEEEDoubleField"}
HasClearer(strategy) == strategy \notin {"none", "StrField"}

\* _resolve_strategy, lines 260-286: the class attribute of that name and
\* the strategy of its class ("none": no such field, or no strategy)
strategy_of(field_name) ==
    IF field_name \in DOMAIN CodecFields
    THEN _lookup_strategy(CodecFields[field_name]) ELSE "none"
\* line 250: strategy.setter(packet, field_name, raw_value); a strategy
\* without a setter is refused by _resolve_strategy (lines 277-280)
run_setter(strategy, raw_value) ==
    CASE strategy = "IEEEFloatField" -> _set_float(raw_value)
      [] strategy = "BitField" -> _set_bit(raw_value)
      [] strategy = "ByteField" -> _set_byte(raw_value)
      [] strategy = "ShortField" -> _set_short(raw_value)
      [] strategy = "LEShortField" -> _set_le_short(raw_value)
      [] strategy = "StrFixedLenField" -> _set_fixed_string(raw_value)
      [] strategy = "IEEEDoubleField" -> _set_double(raw_value)
      [] OTHER -> Rejected("FieldMutationError")
\* the setattr of a setter that did not raise
committed(pkt, field_name, r) ==
    [exc |-> r.exc, result |-> r.result,
     packet |-> IF r.exc = "none" THEN [pkt EXCEPT ![field_name] = r.store] ELSE pkt]
\* FieldMutator.set_value, lines 247-250
set_value(pkt, field_name, raw_value) ==
    committed(pkt, field_name, run_setter(strategy_of(field_name), raw_value))

\* FieldMutator.clear_value, lines 252-259 with _clear_float, _clear_int,
\* _clear_string
clear_value(pkt, field_name) ==
    LET strategy == strategy_of(field_name)
        zero == CASE strategy \in {"IEEEFloatField", "IEEEDoubleField"} -> FloatV(<<0, 0, 0, 0>>)
                  [] strategy = "StrFixedLenField" -> BytesV(<<>>)
                  [] OTHER -> IntV(0)
    IN IF ~HasClearer(strategy)
       THEN [exc |-> "FieldMutationError", result |-> NoneV, packet |-> pkt]
       ELSE [exc |-> "none", result |-> zero, packet |-> [pkt EXCEPT ![field_name] = zero]]

\* lines 99-101: int(field_value), then _reverse_bytes; int() of a bytes
\* object reads it as text, to_bytes raises when the value does not fit
_format_numeric(field_value, length) ==
    LET p == CASE field_value.t = "int" -> [exc |-> "none", n |-> field_value.n]
               [] field_value.t = "bytes" -> int_text(field_value.b, 10)
               [] OTHER -> [exc |-> "TypeError", n |-> 0]
    IN IF p.exc # "none" THEN [exc |-> p.exc, result |-> NoneV]
       ELSE IF p.n < 0 \/ p.n >= Pow(256, length)
            THEN [exc |-> "OverflowError", result |-> NoneV]
       ELSE [exc |-> "none", result |-> IntV(_reverse_bytes(p.n, length))]
\* lines 104-106
_format_float(field_value) ==
    [exc |-> "none", result |-> FloatV(_float_to_big_endian(field_value.b))]

\* FieldFormatter.format_value, lines 300-310
format_value(pkt, field_name) ==
    LET strategy == strategy_of(field_name)
    IN CASE strategy = "none" -> [exc |-> "FieldFormattingError", result |-> NoneV]
         [] strategy \in {"IEEEFloatField", "IEEEDoubleField"} -> _format_float(pkt[field_name])
         [] strategy \in {"BitField", "ByteField"} -> _format_numeric(pkt[field_name], 1)
         [] strategy \in {"ShortField", "LEShortField"} -> _format_numeric(pkt[field_name], 2)
         [] OTHER -> [exc |-> "none", result |-> pkt[field_name]]

nonCodecVars ==
    <<mgrVars, ot_eo_assemblies, to_assemblies, dataVars, cliVars, layoutVars, thrVars,
      clMPU_CIP_Server, bCIPErrorOccured, lock, clients, pc, frame, ret, service, objVars>>

\* The call is recorded and the packet is what the call left of it.
CodecCall(op, field_name, raw_value, r) ==
    /\ codec_packet' = r.packet
    /\ mut' = [op |-> op, name |-> field_name, raw |-> raw_value,
               result |-> r.result, exc |-> r.exc, count |-> mut.count + 1]

OpSetValue ==
    /\ mut.count < MaxMutations
    /\ \E field_name \in CodecNames, raw_value \in RawValues :
          CodecCall("set_value", field_name, raw_value,
                    set_value(codec_packet, field_name, raw_value))
    /\ UNCHANGED nonCodecVars

OpClearValue ==
    /\ mut.count < MaxMutations
    /\ \E field_name \in CodecNames :
          CodecCall("clear_value", field_name, NoneV, clear_value(codec_packet, field_name))
    /\ UNCHANGED nonCodecVars

OpFormatValue ==
    /\ \E field_name \in CodecNames :
          LET r == format_value(codec_packet, field_name)
          IN mut' = [op |-> "format_value", name |-> field_name, raw |-> NoneV,
                     result |-> r.result, exc |-> r.exc, count |-> mut.count]
    /\ UNCHANGED <<nonCodecVars, codec_packet>>

CodecNext == OpSetValue \/ OpClearValue \/ OpFormatValue
CodecSpec == Init /\ [][CodecNext]_vars

\* C21: when set_value has accepted a value (not a NaN) for a field and
\* format_value is called on that field next, it returns the accepted value.
C21_FormatAfterSetReturnsValue ==
    [][(/\ mut.op = "set_value" /\ mut.exc = "none"
        /\ ~(mut.result.t = "float" /\ IsNaN(mut.result.b))
        /\ mut'.op = "format_value" /\ mut'.name = mut.name)
         => (mut'.exc = "none" /\ mut'.result = mut.result)]_vars

\* C22: a set_value call that raises raises FieldMutationError and leaves
\* every field of the packet as it was.
C22_RejectedSetRaisesAndKeeps ==
    [][(mut'.op = "set_value" /\ mut'.count = mut.count + 1 /\ mut'.exc # "none")
         => (mut'.exc = "FieldMutationError" /\ codec_packet' = codec_packet)]_vars


\* ======================================================================
\* config.py: loading configurations into the service (ConfigSpec)
\* ======================================================================
\* What load_configuration is pointed at: a file that parses into a
\* document, a path that resolves to no file, a file that does not parse.
ConfigFiles ==
    {[kind |-> "document", root |-> d] : d \in Documents}
        \cup {[kind |-> "missing", root |-> <<>>], [kind |-> "malformed", root |-> <<>>]}

\* check_ot_eo lines 174-179, check_to 196-201: the assemblies of the
\* subtype that have at least one child element, in document order
Matching(root, subtype) ==
    LET Test(a) == a.subtype = subtype /\ a.children >= 1
    IN SelectSeq(root, Test)

\* create_packet_class reads int(assembly_element.attrib["size"]) first
\* (line 371) and raises when the attribute is missing; check_ot_eo and
\* check_to log the exception and go on (lines 191-192, 213-214).
Registers(root, subtype) ==
    Matching(root, subtype) # <<>> /\ Matching(root, subtype)[1].size # BadSize

\* _register_packet_layout, lines 424-438: a new packet class and a new
\* instance of it
_register_packet_layout(svc, subtype) ==
    LET cls == svc.made + 1
        obj == svc.made + 2
    IN [svc EXCEPT !.made = obj,
                   !.class_of[obj] = cls,
                   !.packet_layouts[subtype] = cls,
                   !.packet_instances[subtype] = obj,
                   !.OT_packet_class = IF subtype = "OT_EO" THEN cls ELSE @,
                   !.OT_packet = IF subtype = "OT_EO" THEN obj ELSE @,
                   !.TO_packet_class = IF subtype = "TO" THEN cls ELSE @,
                   !.TO_packet = IF subtype = "TO" THEN obj ELSE @]

\* check_ot_eo lines 180-192 and check_to 202-214 on the service
check_assembly(svc, root, subtype) ==
    IF Registers(root, subtype) THEN _register_packet_layout(svc, subtype) ELSE svc
\* lines 181 and 203: the element is stored before its layout is built
\* (indexing an empty list raises before the assignment)
AssemblyAfter(old, root, subtype) ==
    IF Matching(root, subtype) = <<>> THEN old ELSE Matching(root, subtype)[1].size

NewObjects(file) ==
    IF file.kind # "document" THEN 0
    ELSE (IF Registers(file.root, "OT_EO") THEN 2 ELSE 0)
         + (IF Registers(file.root, "TO") THEN 2 ELSE 0)

nonConfigVars ==
    <<mgrVars, dataVars, cliVars, layoutVars, codecVars, thrVars,
      clMPU_CIP_Server, bCIPErrorOccured, lock, clients, pc, frame, ret, objVars>>

\* load_configuration, lines 86-103, with check_cip_config 105-166
load_configuration ==
    /\ \E file \in ConfigFiles :
          LET parsed == file.kind = "document"
              s1 == IF parsed THEN check_assembly(service, file.root, "OT_EO") ELSE service
              s2 == IF parsed THEN check_assembly(s1, file.root, "TO") ELSE s1
              ok == /\ parsed
                    /\ Len(Matching(file.root, "OT_EO")) = 1
                    /\ Len(Matching(file.root, "TO")) = 1
          IN /\ service.made + NewObjects(file) <= MaxObjects
             /\ service' = [s2 EXCEPT !.loaded = file, !.success = ok, !.flip = 1 - @]
             /\ ot_eo_assemblies' =
                   IF parsed THEN AssemblyAfter(ot_eo_assemblies, file.root, "OT_EO")
                   ELSE ot_eo_assemblies
             /\ to_assemblies' =
                   IF parsed THEN AssemblyAfter(to_assemblies, file.root, "TO")
                   ELSE to_assemblies
    /\ UNCHANGED nonConfigVars

\* manage_io_communication, comm.py lines 106-110: an inbound frame is
\* decoded into a new instance of TO_packet_class, which is assigned to the
\* TO_packet attribute of the service
decode_inbound ==
    /\ service.TO_packet_class # None
    /\ service.made < MaxObjects
    /\ service' = [service EXCEPT !.made = @ + 1,
                                  !.class_of[service.made + 1] = service.TO_packet_class,
                                  !.TO_packet = service.made + 1]
    /\ UNCHANGED <<nonConfigVars, ot_eo_assemblies, to_assemblies>>

ConfigNext == load_configuration \/ decode_inbound
ConfigSpec == Init /\ [][ConfigNext]_vars

\* get_packet_layout / get_packet_class (lines 440-454), get_packet_instance
\* (456-459) and the live packet attribute of a subtype
get_packet_class(subtype) == service.packet_layouts[subtype]
get_packet_instance(subtype) == service.packet_instances[subtype]
LivePacket(subtype) == IF subtype = "OT_EO" THEN service.OT_packet ELSE service.TO_packet

\* The document has exactly one assembly of the subtype, and it has a field.
ExactlyOne(root, subtype) ==
    /\ Cardinality({i \in 1..Len(root) : root[i].subtype = subtype}) = 1
    /\ \A i \in 1..Len(root) : root[i].subtype = subtype => root[i].children >= 1

\* C23: a load from a file that parses succeeds exactly when the document
\* has exactly one OT_EO assembly and exactly one TO assembly, each with at
\* least one field.
C23_SuccessIffOneOfEach ==
    service.loaded.kind = "document"
        => (service.success <=> (/\ ExactlyOne(service.loaded.root, "OT_EO")
                                 /\ ExactlyOne(service.loaded.root, "TO")))

\* What a load accepts into the service.
Accepted ==
    <<service.packet_layouts, service.packet_instances, service.OT_packet_class,
      service.TO_packet_class, service.OT_packet, service.TO_packet,
      ot_eo_assemblies, to_assemblies>>

\* C24: a load that fails after a load that succeeded leaves layouts,
\* classes, instances and assembly elements as they were.
C24_FailedLoadKeepsConfiguration ==
    [][(service'.flip # service.flip /\ service.success /\ ~service'.success)
         => Accepted' = Accepted]_vars

\* C25: while the last load is a successful one, each subtype has a layout,
\* its registered instance is the live packet and is an instance of the
\* registered class.
C25_RegistryMatchesLivePackets ==
    service.success =>
        \A st \in Subtypes :
            /\ get_packet_class(st) # None
            /\ get_packet_instance(st) # None
            /\ get_packet_instance(st) = LivePacket(st)
            /\ service.class_of[get_packet_instance(st)] = get_packet_class(st)

\* ---------------------------------------------------------------------------
\* The lock and the blocking receive (comm.py lines 100-142)
\* ---------------------------------------------------------------------------

\* the positions of a thread inside recv_UDP_ENIP_CIP_IO (line 101)
ReceivePcs == {"io_wait"}

\* C31: the background thread never holds the packet lock while it waits in
\* the blocking receive: the lock taken for a cycle is released before the
\* next receive starts.
C31_NoLockWhileReceiving ==
    \A t \in Threads : pc[t] \in ReceivePcs => lock # t

\* ---------------------------------------------------------------------------
\* Forward Close after the streaming loop (comm.py lines 251-254)
\* ---------------------------------------------------------------------------

\* the number of Forward Close requests sent so far on the clients cs
ForwardClosesSent(cs) ==
    Cardinality({ck \in ClientIds \X (1..(MaxAttempts + MaxClients)) :
                    ck[2] <= cs[ck[1]].fcSent})

\* C32: manage_io_communication hands run_once only a true error flag, so
\* run_once never sends Forward Close; every Forward Close that is sent is
\* sent by stop().
C32_OnlyStopSendsForwardClose ==
    [][/\ \A p \in Procs : pc'[p] = "after_io" => frame'[p].ioErr
       /\ \A p \in Procs : pc'[p] # "ro_fc_wait"
       /\ ForwardClosesSent(clients') > ForwardClosesSent(clients)
             => (pc[Op] = "stop_fc" /\ pc'[Op] = "stop_fc_wait")]_vars

\* a run_once call whose streaming loop exchanged datagrams and returned is in
\* its finally block, and no Forward Close was sent on its client
C32_Witness ==
    \E p \in Procs :
       /\ pc[p] = "finally"
       /\ frame[p].handshake_success /\ frame[p].ioErr /\ ~frame[p].exc
       /\ clients[frame[p].client].sends > 0
       /\ clients[frame[p].client].fcSent = 0

\* ---------------------------------------------------------------------------
\* Client.close (tgv2020.py lines 108-113)
\* ---------------------------------------------------------------------------

\* the sockets of the client c that are open
OpenSockets(c) ==
    {s \in {"Sock", "MulticastSock", "Sock1"} : clients[c][s] = "open"}

\* C33: after close() has been called on a client, none of the sockets its
\* constructor opened remains open, whichever of the three failed to open.
C33_CloseClosesEverySocket ==
    \A c \in ClientIds : clients[c].closeCalled => OpenSockets(c) = {}

\* ---------------------------------------------------------------------------
\* tgv2020.py: Client.forward_open and Client.read_full_tag, called directly
\* ---------------------------------------------------------------------------

nonClientVars ==
    <<mgrVars, ot_eo_assemblies, to_assemblies, dataVars, cliVars, layoutVars, codecVars,
      thrVars, clMPU_CIP_Server, bCIPErrorOccured, lock, clients, pc, frame, ret, service,
      generators, cli_wave, waveform_manager>>

\* The replies a target can give to a Forward Open request
ForwardOpenReplies ==
    {[status |-> st, ot |-> o, to |-> t, is_fo |-> f, data |-> <<>>] :
        st \in CipStatuses, o \in ConnIds, t \in ConnIds, f \in BOOLEAN}

\* Client.__init__, lines 41-104: the TCP socket opens or stays None; the
\* connection ids start at 0 (lines 94-95).
OpNewClient ==
    /\ cip_client.state = "unborn"
    /\ \E sock \in {"open", "none"} :
          cip_client' = [NoCip EXCEPT !.state = "live", !.Sock = sock]
    /\ UNCHANGED <<cip_call, nonClientVars>>

\* send_rr_cip, lines 120-128, called once at line 231: the request leaves
\* only on an open socket
Requests(client) == IF client.Sock # "none" THEN 1 ELSE 0

\* Variant of line 238 that treats every status as success
ForwardOpenRejected_Never(status) == FALSE
\* forward_open line 238: a non-zero CIP status
ForwardOpenRejected(status) == status # 0

\* Client.forward_open, lines 225-244: what the call returns, the client
\* after it, and the number of requests it sent.
forward_open(client, reply) ==
    IF client.Sock = "none"
    THEN [client |-> client, ret |-> "None", requests |-> Requests(client)]
    ELSE IF ForwardOpenRejected(reply.status)
    THEN [client |-> client, ret |-> "False", requests |-> Requests(client)]
    ELSE IF ~reply.is_fo
    THEN [client |-> client, ret |-> "AssertionError", requests |-> Requests(client)]
    ELSE [client |-> [client EXCEPT !.enip_connection_id_OT = reply.ot,
                                    !.enip_connection_id_TO = reply.to],
          ret |-> "True", requests |-> Requests(client)]

\* One call of forward_open with the reply the target gives
OpForwardOpen ==
    /\ cip_client.state = "live"
    /\ cip_call.pc # "loop"
    /\ cip_client.calls < MaxCalls
    /\ \E reply \in ForwardOpenReplies :
          LET r == forward_open(cip_client, reply) IN
          /\ cip_client' = [r.client EXCEPT !.calls = @ + 1]
          /\ cip_call' = [NoCall EXCEPT
                             !.method = "forward_open", !.pc = "returned",
                             !.ret = r.ret, !.requests = r.requests,
                             !.before = <<cip_client.enip_connection_id_OT,
                                          cip_client.enip_connection_id_TO>>,
                             !.reply = reply]
    /\ UNCHANGED nonClientVars

ConnectionIds(client) == <<client.enip_connection_id_OT, client.enip_connection_id_TO>>

\* C34: forward_open stores the target's two connection ids only when the
\* reply's CIP status is 0, and then returns True; on a non-zero status it
\* returns False, leaves both ids as they were and has sent one request only.
C34_ForwardOpenStoresOnSuccess ==
    (cip_call.method = "forward_open" /\ cip_call.pc = "returned"
        /\ cip_client.Sock = "open")
    => /\ ConnectionIds(cip_client) # cip_call.before
            => /\ cip_call.reply.status = 0
               /\ cip_call.ret = "True"
               /\ ConnectionIds(cip_client) = <<cip_call.reply.ot, cip_call.reply.to>>
       /\ cip_call.ret = "True"
            => /\ cip_call.reply.status = 0
               /\ ConnectionIds(cip_client) = <<cip_call.reply.ot, cip_call.reply.to>>
       /\ cip_call.reply.status # 0
            => /\ cip_call.ret = "False"
               /\ ConnectionIds(cip_client) = cip_call.before
               /\ cip_call.requests = 1

\* a second forward_open on a client that holds ids from an accepted Forward
\* Open was answered with a non-zero status carrying other ids
C34_Witness ==
    /\ cip_call.method = "forward_open" /\ cip_call.pc = "returned"
    /\ cip_client.Sock = "open"
    /\ cip_call.reply.status # 0 /\ cip_call.reply.is_fo
    /\ cip_call.before # <<0, 0>>
    /\ <<cip_call.reply.ot, cip_call.reply.to>> # cip_call.before
    /\ cip_call.ret = "False"

\* The replies a target can give to a Read Tag request
TagReplies ==
    {[status |-> st, ot |-> 0, to |-> 0, is_fo |-> FALSE, data |-> d] :
        st \in CipStatuses, d \in UNION {[1..n -> TagBytes] : n \in 0..MaxChunk}}

\* b''.join(data_chunks), line 357
RECURSIVE join(_)
join(data_chunks) ==
    IF data_chunks = <<>> THEN <<>> ELSE Head(data_chunks) \o join(Tail(data_chunks))

\* The call after one pass of the while loop of read_full_tag (lines 332-355)
\* in which the reply arrived: the request with start=offset and
\* length=remaining_size is sent (333-335); status 0 asserts the length
\* (342-344), status 6 with data goes on (345-347), anything else returns
\* None (348-350); the chunk is kept (353-355) and the loop test (332)
\* decides whether the joined chunks are returned (357).
read_tag_pass(call, reply) ==
    LET asked == [call EXCEPT
                     !.requests = @ + 1,
                     !.sent = Append(@, [start |-> call.offset,
                                         length |-> call.remaining_size]),
                     !.reply = reply]
        n == Len(reply.data)
        kept == [asked EXCEPT !.data_chunks = Append(@, reply.data),
                              !.offset = @ + n,
                              !.remaining_size = @ - n]
    IN CASE reply.status = 0 /\ n # call.remaining_size ->
                [asked EXCEPT !.pc = "returned", !.ret = "AssertionError"]
         [] reply.status # 0 /\ ~(reply.status = 6 /\ n > 0) ->
                [asked EXCEPT !.pc = "returned", !.ret = "None"]
         [] OTHER ->
                IF kept.remaining_size > 0
                THEN kept
                ELSE [kept EXCEPT !.pc = "returned", !.ret = "bytes",
                                  !.data = join(kept.data_chunks)]

\* read_full_tag is called, lines 326-332: the locals are set; a size that is
\* not positive skips the loop and returns the empty join.
OpReadFullTag ==
    /\ cip_client.state = "live"
    /\ cip_call.pc # "loop"
    /\ cip_client.calls < MaxCalls
    /\ \E total_size \in 0..MaxTagSize :
          cip_call' = [NoCall EXCEPT
                          !.method = "read_full_tag",
                          !.total_size = total_size,
                          !.remaining_size = total_size,
                          !.pc = IF total_size > 0 THEN "loop" ELSE "returned",
                          !.ret = IF total_size > 0 THEN "none" ELSE "bytes"]
    /\ cip_client' = [cip_client EXCEPT !.calls = @ + 1]
    /\ UNCHANGED nonClientVars

\* One pass of the loop: without a socket nothing is sent and the call
\* returns None (lines 336-337), otherwise the target's reply is handled.
ReadTagPass ==
    /\ cip_call.method = "read_full_tag" /\ cip_call.pc = "loop"
    /\ IF cip_client.Sock = "none"
       THEN cip_call' = [cip_call EXCEPT !.pc = "returned", !.ret = "None"]
       ELSE \E reply \in TagReplies : cip_call' = read_tag_pass(cip_call, reply)
    /\ UNCHANGED <<cip_client, nonClientVars>>

\* the bytes received in the first k replies that were kept
Received(k) == Len(join(SubSeq(cip_call.data_chunks, 1, k)))

\* C35: every Read Tag request of a read_full_tag call asks for start = the
\* number of bytes received so far and length = total_size minus that number;
\* when the call returns data, the data is the chunks joined in order and is
\* total_size bytes long.
C35_ReadFullTagReturnsTotalSize ==
    cip_call.method = "read_full_tag"
    => /\ \A i \in 1..Len(cip_call.sent) :
             /\ cip_call.sent[i].start = Received(i - 1)
             /\ cip_call.sent[i].length = cip_call.total_size - Received(i - 1)
       /\ (cip_call.pc = "returned" /\ cip_call.ret = "bytes")
             => /\ cip_call.data = join(cip_call.data_chunks)
                /\ Len(cip_call.data) = cip_call.total_size

ClientNext == OpNewClient \/ OpForwardOpen \/ OpReadFullTag \/ ReadTagPass
ClientSpec == Init /\ [][ClientNext]_vars

\* ---------------------------------------------------------------------------
\* Spare bytes of the compiled layout (config.py lines 283-347)
\* ---------------------------------------------------------------------------

\* The byte at byte_index holds a bit of a declared field of the schema sc
Claimed(sc, byte_index) ==
    \E i \in 1..Len(sc.fields) :
        BitsOf(sc.fields[i]) \cap ((8 * byte_index)..(8 * byte_index + 7)) # {}

\* The maximal runs of unclaimed bytes of sc, each as <<first byte, bytes>>
SpareRuns(sc) ==
    LET count == sc.total_bits \div 8
        free(a, n) == \A b \in a..(a + n - 1) : ~Claimed(sc, b)
    IN {r \in (0..(count - 1)) \X (1..count) :
           /\ r[1] + r[2] <= count
           /\ free(r[1], r[2])
           /\ r[1] = 0 \/ Claimed(sc, r[1] - 1)
           /\ r[1] + r[2] = count \/ Claimed(sc, r[1] + r[2])}

\* The spare byte fields of a compiled layout
SpareBytes(fs) == {k \in 1..Len(fs) : fs[k].id.kind = "spare_byte"}

\* C36: every maximal run of bytes that no declared field of a valid schema
\* claims, a run that reaches the end of the assembly included, is one field
\* spare_byte_<first byte of the run> of the run's length in the compiled
\* layout, and no two spare byte fields are adjacent.
C36_OneSparePerRun ==
    (layout # NoLayout /\ ValidSchema(schema))
       => LET fs == layout.fields IN
          /\ \A r \in SpareRuns(schema) :
                /\ Cardinality({k \in SpareBytes(fs) : fs[k].id.a = r[1]}) = 1
                /\ \A k \in SpareBytes(fs) : fs[k].id.a = r[1] => fs[k].length = r[2]
          /\ \A k, m \in SpareBytes(fs) :
                fs[k].offset + 8 * fs[k].length # fs[m].offset

\* ---------------------------------------------------------------------------
\* Declared fields in the packet class (config.py lines 270-311, 393-421)
\* ---------------------------------------------------------------------------

\* The bits a descriptor of the packet class encodes to (scapy: BitField of
\* 1 bit, ByteField and SignedByteField 1 byte, ShortField 2, LEIntField and
\* IEEEFloatField 4, StrFixedLenField its length)
DescBits(d) ==
    CASE d.cls = "BitField" -> 1
      [] d.cls \in {"ByteField", "SignedByteField"} -> 8
      [] d.cls = "ShortField" -> 16
      [] d.cls \in {"LEIntField", "IEEEFloatField"} -> 32
      [] OTHER -> 8 * d.length

RECURSIVE EncodedBits(_)
EncodedBits(ds) == IF ds = <<>> THEN 0 ELSE DescBits(Head(ds)) + EncodedBits(Tail(ds))

\* A valid schema whose fields other than BOOL start on a byte boundary and
\* have a positive length
WellFormed(sc) ==
    /\ ValidSchema(sc)
    /\ \A i \in 1..Len(sc.fields) :
          /\ sc.fields[i].length > 0
          /\ sc.fields[i].type # "bool" => sc.fields[i].offset % 8 = 0

\* C37: every declared field of a well-formed schema, whatever its type,
\* appears once under its own id at its declared offset in the compiled
\* layout and is a named field of the packet class, and the packet class
\* encodes to total_bits / 8 bytes.
C37_DeclaredFieldsInClass ==
    (layout # NoLayout /\ WellFormed(schema))
       => LET fs == layout.fields
              ds == layout.field_desc
          IN /\ \A i \in 1..Len(schema.fields) :
                   LET id == [kind |-> "field", a |-> i, b |-> 0] IN
                   /\ Cardinality({k \in 1..Len(fs) : fs[k].id = id}) = 1
                   /\ \A k \in 1..Len(fs) :
                         fs[k].id = id => fs[k].offset = schema.fields[i].offset
                   /\ \E k \in 1..Len(ds) : ds[k].name = id
             /\ EncodedBits(ds) = schema.total_bits

\* ---------------------------------------------------------------------------
\* cli/waveforms.py: the waveform commands next to set_field
\* ---------------------------------------------------------------------------

nonWaveVars ==
    <<mgrVars, ot_eo_assemblies, to_assemblies, dataVars, cliVars, layoutVars, codecVars,
      thrVars, clMPU_CIP_Server, bCIPErrorOccured, clients, pc, frame, ret, service,
      cip_client, cip_call, waveform_manager>>

\* stop_wave, waveforms.py lines 147-151: an event that is there and not set
\* is set
cli_stop_wave(events, field_name) ==
    IF events[field_name] = "clear" THEN [events EXCEPT ![field_name] = "set"] ELSE events

\* wave_field / tria_field / box_field up to the test of the field's class
\* (lines 28-31, 65-68, 100-103): the waveform of the field is stopped
OpCliWaveField ==
    /\ cli_wave.op_pc = "idle"
    /\ \E g \in Generators : generators[g].state = "unborn"
    /\ \E field_name \in WaveFields :
          cli_wave' = [cli_wave EXCEPT
                          !.stop_events = cli_stop_wave(@, field_name),
                          !.op_pc = "wf_start", !.op_name = field_name]
    /\ UNCHANGED <<generators, lock, nonWaveVars>>

\* line 56 (91, 125): self.stop_events[field_name] = threading.Event()
NewEvent(event) == "clear"

\* wave_field lines 32-58: the dict entry of the field is a new event, and the
\* generator thread is started
CliWaveStart ==
    /\ cli_wave.op_pc = "wf_start"
    /\ LET field_name == cli_wave.op_name
           g == CHOOSE h \in Generators :
                   /\ generators[h].state = "unborn"
                   /\ \A k \in Generators : generators[k].state = "unborn" => h <= k
       IN /\ cli_wave' = [cli_wave EXCEPT
                             !.stop_events[field_name] = NewEvent(@),
                             !.started[field_name] = @ + 1,
                             !.last_cmd[field_name] = "wave_field",
                             !.op_pc = "idle", !.op_name = "none"]
          /\ generators' = [generators EXCEPT
                               ![g] = [state |-> "test", field_name |-> field_name,
                                       epoch |-> cli_wave.started[field_name] + 1]]
    /\ UNCHANGED <<lock, nonWaveVars>>

\* The stop_wave command (commands.py line 348)
OpCliStopWave ==
    /\ cli_wave.op_pc = "idle"
    /\ \E field_name \in WaveFields :
          cli_wave' = [cli_wave EXCEPT
                          !.stop_events = cli_stop_wave(@, field_name),
                          !.last_cmd[field_name] = "stop_wave"]
    /\ UNCHANGED <<generators, lock, nonWaveVars>>

\* set_field lines 464-466: the waveform of the field is stopped first
OpCliSetField ==
    /\ cli_wave.op_pc = "idle"
    /\ \E field_name \in WaveFields :
          cli_wave' = [cli_wave EXCEPT
                          !.stop_events = cli_stop_wave(@, field_name),
                          !.op_pc = "sf_acquire", !.op_name = field_name]
    /\ UNCHANGED <<generators, lock, nonWaveVars>>

\* set_field line 467
CliSetFieldAcquire ==
    /\ cli_wave.op_pc = "sf_acquire"
    /\ lock = FreeLock
    /\ lock' = Op
    /\ cli_wave' = [cli_wave EXCEPT !.op_pc = "sf_body"]
    /\ UNCHANGED <<generators, nonWaveVars>>

\* set_field lines 468-481 and 606 for a REAL field and a value float()
\* accepts: the value is stored and the lock released
CliSetFieldStore ==
    /\ cli_wave.op_pc = "sf_body"
    /\ lock' = FreeLock
    /\ cli_wave' = [cli_wave EXCEPT
                       !.value[cli_wave.op_name] = "operator",
                       !.last_cmd[cli_wave.op_name] = "set_field",
                       !.op_pc = "idle", !.op_name = "none"]
    /\ UNCHANGED <<generators, nonWaveVars>>

\* wave_thread line 42 (77, 111): the event the dict holds for the field now
\* is tested
GenLoopTest(g) ==
    /\ generators[g].state = "test"
    /\ LET field_name == generators[g].field_name IN
       generators' = [generators EXCEPT
                         ![g] = IF cli_wave.stop_events[field_name] = "set"
                                THEN [@ EXCEPT !.state = "done"]
                                ELSE [@ EXCEPT !.state = "acquire",
                                               !.epoch = cli_wave.started[field_name]]]
    /\ UNCHANGED <<cli_wave, lock, nonWaveVars>>

\* wave_thread lines 43-51: the sample is computed, then with self.lock
GenAcquire(g) ==
    /\ generators[g].state = "acquire"
    /\ lock = FreeLock
    /\ lock' = Wave + g
    /\ generators' = [generators EXCEPT ![g].state = "set"]
    /\ UNCHANGED <<cli_wave, nonWaveVars>>

\* wave_thread lines 52-54: setattr, the with block ends, sleep
GenSet(g) ==
    /\ generators[g].state = "set"
    /\ lock' = FreeLock
    /\ cli_wave' = [cli_wave EXCEPT !.value[generators[g].field_name] = "sample"]
    /\ generators' = [generators EXCEPT ![g].state = "test"]
    /\ UNCHANGED nonWaveVars

GeneratorStep(g) == GenLoopTest(g) \/ GenAcquire(g) \/ GenSet(g)

WaveNext ==
    \/ OpCliWaveField \/ CliWaveStart \/ OpCliStopWave
    \/ OpCliSetField \/ CliSetFieldAcquire \/ CliSetFieldStore
    \/ \E g \in Generators : GeneratorStep(g)

WaveSpec == Init /\ [][WaveNext]_vars

\* C38: once set_field has stored the operator's value and returned, the
\* field holds that value as long as the operator gives no other command on
\* the field: no generator writes a sample over it.
C38_SetFieldValueStays ==
    \A f \in WaveFields :
       (cli_wave.op_pc = "idle" /\ cli_wave.last_cmd[f] = "set_field")
          => cli_wave.value[f] = "operator"

\* The generators of field f that found their loop condition open after the
\* last waveform was started on f, the one started last included
Writing(f) ==
    {g \in Generators :
        /\ generators[g].field_name = f
        /\ generators[g].state \in {"test", "acquire", "set"}
        /\ generators[g].epoch = cli_wave.started[f]}

\* C39: a waveform started on a field replaces the one running on it: at
\* most one generator thread of a field goes on writing once the new waveform
\* has started.
C39_OneGeneratorPerField ==
    \A f \in WaveFields : Cardinality(Writing(f)) <= 1

\* ---------------------------------------------------------------------------
\* fields.py: WaveformManager
\* ---------------------------------------------------------------------------

nonManagerVars ==
    <<mgrVars, ot_eo_assemblies, to_assemblies, dataVars, cliVars, layoutVars, codecVars,
      thrVars, clMPU_CIP_Server, bCIPErrorOccured, lock, clients, pc, frame, ret, service,
      cip_client, cip_call, generators, cli_wave>>

\* The names that have a registered waveform
Registered(m) == {f \in ManagerNames : m._stop_events[f] # None}

\* Variant of dict.pop that leaves the entry in the dict
pop_Kept(d, key) == d
\* dict.pop(key, None), lines 402-403, as far as the dict goes
pop(d, key) == [d EXCEPT ![key] = None]

\* stop_wave, lines 401-409: the manager after the call and what it returns.
\* The join (line 408) waits at most 0.5 s and changes nothing here.
stop_wave_of(m, field_name) ==
    LET event == m._stop_events[field_name]
        popped == [m EXCEPT !._stop_events = pop(@, field_name),
                            !._threads = pop(@, field_name)]
    IN IF event = None
       THEN [m |-> popped, ret |-> FALSE]
       ELSE [m |-> [popped EXCEPT !.event[event] = "set"], ret |-> TRUE]

\* stop_all, lines 411-416: stop_wave on each name the dict held when the
\* call began; the names for which it returned True
RECURSIVE stop_all_of(_, _, _)
stop_all_of(m, names, stopped) ==
    IF names = {} THEN [m |-> m, stopped |-> stopped]
    ELSE LET name == CHOOSE f \in names : TRUE
             r == stop_wave_of(m, name)
         IN stop_all_of(r.m, names \ {name},
                        IF r.ret THEN stopped \cup {name} ELSE stopped)

\* What a call leaves in call
Called(m, op, name) ==
    [NoManagerCall EXCEPT !.op = op, !.name = name,
                          !.before = Registered(m),
                          !.before_events = {m._stop_events[f] : f \in Registered(m)}]

\* The manager after stop_wave(field_name) was called on m
AfterStopWave(m, field_name, r) ==
    [r.m EXCEPT !.call = [Called(m, "stop_wave", field_name) EXCEPT !.ret = r.ret]]

MgrStopWave ==
    /\ \E field_name \in ManagerNames :
          waveform_manager' =
              AfterStopWave(waveform_manager, field_name,
                            stop_wave_of(waveform_manager, field_name))
    /\ UNCHANGED nonManagerVars

\* The manager after stop_all() was called on m
AfterStopAll(m, r) ==
    [r.m EXCEPT !.call = [Called(m, "stop_all", "none") EXCEPT !.stopped = r.stopped]]

MgrStopAll ==
    /\ waveform_manager' =
          AfterStopAll(waveform_manager,
                       stop_all_of(waveform_manager, Registered(waveform_manager), {}))
    /\ UNCHANGED nonManagerVars

\* _launch_wave, lines 446-473, on the manager m that stop_wave left: a new
\* event is registered for the field and its runner thread is started
launched(m, field_name, e) ==
    [m EXCEPT !._stop_events[field_name] = e, !._threads[field_name] = e,
              !.event[e] = "clear", !.runner[e] = "running"]

\* start_wave, lines 340-356 (start_triangle_wave, start_square_wave alike):
\* a field that is not an IEEEFloatField raises WaveformError (lines 433-444)
\* before anything is changed; otherwise _launch_wave
MgrStartWave ==
    /\ \E field_name \in ManagerNames :
          IF field_name \notin WaveFields
          THEN waveform_manager' =
                  [waveform_manager EXCEPT
                      !.call = [Called(waveform_manager, "start_wave", field_name)
                                   EXCEPT !.exc = "WaveformError"]]
          ELSE /\ \E e \in Events : waveform_manager.event[e] = "unborn"
               /\ LET e == CHOOSE x \in Events :
                              /\ waveform_manager.event[x] = "unborn"
                              /\ \A y \in Events :
                                    waveform_manager.event[y] = "unborn" => x <= y
                  IN waveform_manager' =
                        [launched(stop_wave_of(waveform_manager, field_name).m, field_name, e)
                            EXCEPT !.call = Called(waveform_manager, "start_wave", field_name)]
    /\ UNCHANGED nonManagerVars

\* runner, lines 457-469: the loop ends when the runner's own event is set;
\* a packet supplier that returns None makes the runner set it itself
RunnerStep(e) ==
    /\ waveform_manager.runner[e] = "running"
    /\ \E packet \in {"packet", "None"} :
          IF waveform_manager.event[e] = "set" \/ packet = "None"
          THEN waveform_manager' = [waveform_manager EXCEPT !.event[e] = "set",
                                                            !.runner[e] = "done"]
          ELSE waveform_manager' = waveform_manager
    /\ waveform_manager' # waveform_manager
    /\ UNCHANGED nonManagerVars

ManagerNext ==
    \/ MgrStartWave \/ MgrStopWave \/ MgrStopAll
    \/ \E e \in Events : RunnerStep(e)

ManagerSpec == Init /\ [][ManagerNext]_vars

\* C40: stop_all() sets the stop event of every registered waveform, returns
\* exactly the names that had one and leaves none registered; stop_wave(name)
\* returns True when a waveform was registered for name (its event is then
\* set and the name no longer registered) and False otherwise.
C40_StopAllStopsAndReports ==
    LET m == waveform_manager IN
    /\ m.call.op = "stop_all"
          => /\ \A e \in m.call.before_events : m.event[e] = "set"
             /\ m.call.stopped = m.call.before
             /\ Registered(m) = {}
             /\ \A f \in ManagerNames : m._threads[f] = None
    /\ m.call.op = "stop_wave"
          => /\ m.call.ret = (m.call.name \in m.call.before)
             /\ m.call.name \notin Registered(m)
             /\ \A e \in m.call.before_events :
                   e \notin {m._stop_events[f] : f \in Registered(m)} => m.event[e] = "set"

\* stop_all() was called with a waveform registered on each of two fields, one
\* of them with its runner still going
C40_Witness ==
    LET m == waveform_manager IN
    /\ m.call.op = "stop_all"
    /\ Cardinality(m.call.before) = 2
    /\ \E e \in m.call.before_events : m.runner[e] = "running"

====
